---- MODULE Spec2Model ----
(***************************************************************************)
(* QuantSim trading engine: the cycle that fetches quotes, evaluates each  *)
(* investor's strategy per instrument, executes trades against the ledger  *)
(* tables (portfolio, positions, trades, equity_snapshots) and settles.    *)
(*                                                                         *)
(* The repository carries three revisions of the engine; each is modelled  *)
(* as its own specification over the same ledger variables:                *)
(*   Spec        registry engine  (src/lib/market-service.ts:273-558,      *)
(*               strategies of src/lib/strategies.ts:1-155)                *)
(*   SpecSwitch  switch engine    (src/lib/engine.ts:1-355)                *)
(*   SpecLegacy  legacy engine    (src/lib/engine.ts:356-682)              *)
(* Two further specifications exercise parts of the code on their own:     *)
(*   SpecOrders  the registry engine whose symbol step is also handed BUY  *)
(*               decisions larger than any strategy of the registry asks,  *)
(*               so that the affordability test in front of a BUY is met   *)
(*               with a decision it has to refuse                          *)
(*   SpecEval    the strategy evaluators as pure functions (the registry   *)
(*               and the earlier zen evaluator of strategies.ts:313-340)   *)
(*   SpecSells   the registry engine also handed a SELL larger than any    *)
(*               holding, for the cap of a SELL at the shares held         *)
(*   SpecSmall   the registry engine also handed a BUY of half a dollar    *)
(*   SpecFaults  the registry engine with a store that can fail while an   *)
(*               investor's portfolio is loaded                            *)
(*   SpecLegacyWrites  the legacy engine with the three writes of a trade  *)
(*               (trades, portfolio, positions) as separate steps          *)
(*                                                                         *)
(*   SpecAwait   the registry engine with the quote request as a step of   *)
(*               its own and weak fairness on the engine's own steps       *)
(*   SpecHalfDays  the registry engine with ticks twelve hours apart       *)
(*   SpecDaemon  the daemon loop (src/scripts/daemon.ts) over the registry *)
(*               engine: trading cycle, candle sync on every twelfth tick, *)
(*               timer; a cycle may end with an exception                  *)
(*   SpecTwice   two calls of one evaluator on one params object           *)
(*   SpecFloor   the registry engine under a slump of 90 percent, also     *)
(*               handed a large BUY, which takes dog below its floor       *)
(*   SpecCandles soldier's evaluator on the statistics getWeeklyStats      *)
(*               computes from candle histories                            *)
(*   SpecReset   the switch engine with scripts/reset-account.ts run       *)
(*               between cycles                                            *)
(*                                                                         *)
(* The daemon (src/scripts/daemon.ts) re-arms its timer when a cycle has   *)
(* ended; timers counts the armed timers and wrote logs the tables one     *)
(* trade of the legacy engine has written so far.                          *)
(*                                                                         *)
(* JavaScript numbers are modelled as exact rationals <<n, d>> (d > 0, in  *)
(* lowest terms); floating-point rounding is outside the model.  Money is  *)
(* held in thousands of dollars (Usd), share counts and ratios as they     *)
(* are.  Time is counted in half days, so that both "same calendar day"    *)
(* and "24 hours passed" can be told apart.                                *)
(***************************************************************************)
EXTENDS Integers, Sequences, FiniteSets, TLC

\* ------------------------------------------------------------------------
\* Bounds
\* ------------------------------------------------------------------------
MaxTicks == 3
NumSymbols == 2
MaxSubmitted == 1

\* ------------------------------------------------------------------------
\* Exact arithmetic on JavaScript numbers
\* ------------------------------------------------------------------------
\* Euclid's algorithm, as a function of two naturals
Euclid[a \in Nat, b \in Nat] == IF b = 0 THEN a ELSE Euclid[b, a % b]

Gcd(a, b) == Euclid[a, b]

Abs(x) == IF x < 0 THEN 0 - x ELSE x

Norm(n, d) ==
  LET g == Gcd(Abs(n), d) IN <<n \div g, d \div g>>

\* the dollar amount or price k.  Money is held in thousands of dollars,
\* which leaves share counts, ratios and percentages as they are and keeps
\* the exact fractions within the integers of the model checker.
Usd(k) == Norm(k, 1000)

Frac(n, d) == Norm(n, d)

Zero == <<0, 1>>

Add(a, b) ==
  LET g == Gcd(a[2], b[2])
  IN Norm(a[1] * (b[2] \div g) + b[1] * (a[2] \div g), (a[2] \div g) * b[2])

Neg(a) == <<0 - a[1], a[2]>>

Sub(a, b) == Add(a, Neg(b))

Mul(a, b) ==
  LET g1 == Gcd(Abs(a[1]), b[2])
      g2 == Gcd(Abs(b[1]), a[2])
  IN Norm((a[1] \div g1) * (b[1] \div g2), (a[2] \div g2) * (b[2] \div g1))

\* a / b for b > 0
Div(a, b) == Mul(a, <<b[2], b[1]>>)

Lt(a, b) ==
  LET g == Gcd(a[2], b[2])
  IN a[1] * (b[2] \div g) < b[1] * (a[2] \div g)

Le(a, b) == ~Lt(b, a)
Gt(a, b) == Lt(b, a)
Ge(a, b) == ~Lt(a, b)

\* variant: no cap, the first argument is taken as it is
MathMinUncapped(a, b) == a

\* Math.min
MathMin(a, b) == IF Lt(b, a) THEN b ELSE a

\* x || y on numbers: 0 is falsy
OrElse(x, y) == IF x = Zero THEN y ELSE x

\* ------------------------------------------------------------------------
\* Catalog
\* ------------------------------------------------------------------------
INVESTORS == <<"leek", "gambler", "mom", "dog", "xiaoqing", "soldier", "zen">>

AllSymbols == <<"QQQ", "GLD", "SPY", "NVDA", "TLT">>

SYMBOLS == SubSeq(AllSymbols, 1, NumSymbols)

SymbolSet == {SYMBOLS[j] : j \in 1..NumSymbols}

InvestorSet == {INVESTORS[i] : i \in 1..Len(INVESTORS)}

INITIAL_CAPITAL == 1000000

\* new Date(t).toDateString(): the calendar day of a time in half days
toDateString(t) == t \div 2

\* absent row / null / undefined
NULL == [null |-> TRUE]

\* ------------------------------------------------------------------------
\* Inputs of a cycle: the quote feed, the weekly candle statistics, and the
\* time elapsed since the previous tick
\* ------------------------------------------------------------------------
Quote(price, pct) == [price |-> Usd(price), changePercent |-> Frac(pct, 100)]

WeeklyStats == [high |-> Usd(110), low |-> Usd(90)]

\* what getMarketPrices and getWeeklyStats can return in one cycle: every
\* symbol flat, every symbol crashed, a rally quoted for the first symbol
\* alone (no quote and no candles for the others), and an empty feed
Feeds ==
  { [marketMap |-> [s \in SymbolSet |-> Quote(100, 0)],
     weeklyStatsMap |-> [s \in SymbolSet |-> WeeklyStats]],
    [marketMap |-> [s \in SymbolSet |-> Quote(40, -60)],
     weeklyStatsMap |-> [s \in SymbolSet |-> WeeklyStats]],
    [marketMap |-> [s \in {SYMBOLS[1]} |-> Quote(125, 25)],
     weeklyStatsMap |-> [s \in {SYMBOLS[1]} |-> WeeklyStats]],
    [marketMap |-> [s \in {} |-> Quote(100, 0)],
     weeklyStatsMap |-> [s \in {} |-> WeeklyStats]] }

\* half days that pass between two ticks of the daemon: the next tick runs
\* on the same calendar day, or a full day later
Elapsed == {0, 2}

\* Math.random() < 0.5
Rolls == {TRUE, FALSE}

\* only zen's evaluator draws a random number
RollsOf(id) == IF id = "zen" THEN Rolls ELSE {FALSE}

\* ------------------------------------------------------------------------
\* State
\* ------------------------------------------------------------------------
VARIABLES
  now,              \* wall clock, in half days
  tickCount,        \* cycles started so far
  portfolio,        \* table portfolio: investor_id -> row
  positions,        \* table positions: <<investor_id, symbol>> -> row
  trades,           \* table trades (append-only)
  equity_snapshots, \* table equity_snapshots (append-only)
  marketMap,        \* quotes of the running (or last) cycle
  weeklyStatsMap,   \* weekly high/low of the running cycle
  todayStr,         \* calendar day of the running cycle
  pc,               \* position in runTradingBot: [phase, i, s]
  currentCash,      \* in-memory cash of the investor being processed
  posMap,           \* in-memory positions of the investor being processed
  estimatedEquity,  \* equity estimate handed to the strategies
  peakEquity,       \* in-memory peak (switch engine)
  drawdown,         \* drawdown of the running investor (switch engine)
  last,             \* the decision taken in the last symbol step
  submitted,        \* decisions handed to the engine from outside the registry
  wrote,            \* tables written so far by the latest trade execution,
                    \* in the order of the writes (write-by-write steps only)
  timers,           \* pending timer callbacks of the daemon loop
  history,          \* per symbol, the tick of the last syncSymbolHistory call
                    \* and the tick of the last call that stored candles
  thrown,           \* cycles of the daemon that ended with an exception
  calls             \* evaluator calls made on one input: who, params, decision

vars == <<now, tickCount, portfolio, positions, trades, equity_snapshots,
          marketMap, weeklyStatsMap, todayStr, pc, currentCash, posMap,
          estimatedEquity, peakEquity, drawdown, last, submitted, wrote, timers,
          history, thrown, calls>>

Idle == [phase |-> "idle", i |-> 0, s |-> 0]

NoStep == [investor |-> "", symbol |-> "", action |-> "NONE", amountUSD |-> Zero,
           shares |-> Zero, cash |-> Zero, isTradedToday |-> FALSE,
           held |-> Zero, executed |-> FALSE]

Init ==
  /\ now = 0
  /\ tickCount = 0
  /\ portfolio = [x \in {} |-> NULL]
  /\ positions = [x \in {} |-> NULL]
  /\ trades = <<>>
  /\ equity_snapshots = <<>>
  /\ marketMap = [x \in {} |-> NULL]
  /\ weeklyStatsMap = [x \in {} |-> NULL]
  /\ todayStr = 0
  /\ pc = Idle
  /\ currentCash = Zero
  /\ posMap = [x \in {} |-> NULL]
  /\ estimatedEquity = Zero
  /\ peakEquity = Zero
  /\ drawdown = Zero
  /\ last = NoStep
  /\ submitted = 0
  /\ wrote = <<>>
  /\ timers = 1
  /\ history = [s \in SymbolSet |-> [called |-> 0, stored |-> 0]]
  /\ thrown = 0
  /\ calls = <<>>

\* ------------------------------------------------------------------------
\* Store helpers
\* ------------------------------------------------------------------------
\* upsert / update of one row
Put(table, key, row) == [k \in DOMAIN table \cup {key} |-> IF k = key THEN row ELSE table[k]]

\* delete of one row
Remove(table, key) == [k \in DOMAIN table \ {key} |-> table[k]]

\* select('*').eq('investor_id', id) on positions, keyed by symbol
PositionsOf(id) ==
  [s \in {k[2] : k \in {q \in DOMAIN positions : q[1] = id}} |-> positions[<<id, s>>]]

RECURSIVE SumOver(_, _)
SumOver(S, f) ==
  IF S = {} THEN Zero
  ELSE LET x == CHOOSE y \in S : TRUE IN Add(f[x], SumOver(S \ {x}, f))

\* ------------------------------------------------------------------------
\* Strategy registry (src/lib/strategies.ts:1-155)
\* A decision is [action, amountUSD, shares]; an absent field is 0.
\* ------------------------------------------------------------------------
Hold == [action |-> "HOLD", amountUSD |-> Zero, shares |-> Zero]
Buy(amountUSD) == [action |-> "BUY", amountUSD |-> amountUSD, shares |-> Zero]
Sell(shares) == [action |-> "SELL", amountUSD |-> Zero, shares |-> shares]

Pct(k) == Frac(k, 100)

leekStrategy(p) ==
  IF p.isTradedToday THEN Hold
  ELSE IF p.position = NULL
    THEN (IF Ge(p.cash, Usd(100000)) THEN Buy(Usd(100000)) ELSE Hold)
  ELSE IF Gt(p.marketData.changePercent, Pct(2)) /\ Ge(p.cash, Usd(50000))
    THEN Buy(Usd(50000))
  ELSE IF Lt(p.marketData.changePercent, Pct(-5)) THEN Sell(p.position.shares)
  ELSE Hold

\* variant: the martingale doubles down without looking at the cash
gamblerDoublesBlindly(p) ==
  IF p.isTradedToday THEN Hold
  ELSE IF p.position = NULL
    THEN (IF Ge(p.cash, Usd(100000)) THEN Buy(Usd(100000)) ELSE Hold)
  ELSE
    LET lastBuy == OrElse(p.position.last_buy_price, p.position.avg_price)
        cost == Mul(p.position.shares, p.position.avg_price)
    IN IF Lt(p.price, Mul(lastBuy, Pct(97))) THEN Buy(cost)
       ELSE IF Gt(p.price, Mul(lastBuy, Pct(103)))
         THEN Sell(Mul(p.position.shares, Pct(30)))
       ELSE Hold

gamblerStrategy(p) ==
  IF p.isTradedToday THEN Hold
  ELSE IF p.position = NULL
    THEN (IF Ge(p.cash, Usd(100000)) THEN Buy(Usd(100000)) ELSE Hold)
  ELSE
    LET lastBuy == OrElse(p.position.last_buy_price, p.position.avg_price)
        cost == Mul(p.position.shares, p.position.avg_price)
    IN IF Lt(p.price, Mul(lastBuy, Pct(97))) /\ Ge(p.cash, cost) THEN Buy(cost)
       ELSE IF Gt(p.price, Mul(lastBuy, Pct(103)))
         THEN Sell(Mul(p.position.shares, Pct(30)))
       ELSE Hold

momStrategy(p) ==
  IF p.isTradedToday THEN Hold
  ELSE IF p.position = NULL
    THEN (IF Ge(p.cash, Usd(200000)) THEN Buy(Usd(200000)) ELSE Hold)
  ELSE
    LET lastBuy == OrElse(p.position.last_buy_price, p.position.avg_price)
    IN IF Gt(p.price, Mul(lastBuy, Pct(110)))
         THEN Sell(Mul(p.position.shares, Pct(20)))
       ELSE Hold

\* variant: dog without its equity floor
dogWithoutFloor(p) ==
  IF p.isTradedToday THEN Hold
  ELSE IF p.position = NULL
    THEN (IF Ge(p.cash, Usd(50000)) THEN Buy(Usd(50000)) ELSE Hold)
  ELSE IF Lt(p.marketData.changePercent, Pct(-2)) /\ Ge(p.cash, Usd(10000))
    THEN Buy(Usd(10000))
  ELSE Hold

dogStrategy(p) ==
  IF p.isTradedToday THEN Hold
  ELSE IF Lt(p.totalEquity, Usd(500000)) /\ p.position # NULL
    THEN Sell(p.position.shares)
  ELSE IF Lt(p.totalEquity, Usd(500000)) /\ p.position = NULL THEN Hold
  ELSE IF p.position = NULL
    THEN (IF Ge(p.cash, Usd(50000)) THEN Buy(Usd(50000)) ELSE Hold)
  ELSE
    LET lastAction == OrElse(p.position.last_action_price, p.position.avg_price)
    IN IF Gt(p.price, Mul(lastAction, Pct(105)))
         THEN Sell(Mul(p.position.shares, Pct(50)))
       ELSE IF Lt(p.marketData.changePercent, Pct(-2)) /\ Ge(p.cash, Usd(10000))
         THEN Buy(Usd(10000))
       ELSE Hold

\* variant: the accumulator takes profit as the profit-taker does
xiaoqingTakesProfit(p) == momStrategy(p)

xiaoqingStrategy(p) ==
  IF p.isTradedToday THEN Hold
  ELSE IF p.position = NULL
    THEN (IF Ge(p.cash, Usd(100000)) THEN Buy(Usd(100000)) ELSE Hold)
  ELSE
    LET lastAction == OrElse(p.position.last_action_price, p.position.avg_price)
    IN IF Lt(p.price, Mul(lastAction, Pct(97))) /\ Ge(p.cash, Usd(50000))
         THEN Buy(Usd(50000))
       ELSE Hold

soldierStrategy(p) ==
  IF p.isTradedToday THEN Hold
  ELSE IF p.position = NULL
    THEN (IF Ge(p.cash, Usd(100000)) THEN Buy(Usd(100000)) ELSE Hold)
  ELSE IF p.weeklyHigh = Zero \/ p.weeklyLow = Zero THEN Hold
  ELSE
    LET addAmount == Mul(Mul(p.position.shares, Pct(50)), p.price)
    IN IF Lt(p.price, p.weeklyLow) /\ Ge(p.cash, addAmount) THEN Buy(addAmount)
       ELSE IF Gt(p.price, p.weeklyHigh) THEN Sell(Mul(p.position.shares, Pct(10)))
       ELSE Hold

\* p.roll stands for Math.random() < 0.5
zenStrategy(p) ==
  IF p.isTradedToday THEN Hold
  ELSE IF p.position = NULL
    THEN (IF Ge(p.cash, Usd(100000)) THEN Buy(Usd(100000)) ELSE Hold)
  ELSE
    LET operateValue == Mul(Mul(p.position.shares, p.price), Pct(10))
    IN IF p.roll
         THEN (IF Ge(p.cash, operateValue) THEN Buy(operateValue) ELSE Hold)
       ELSE Sell(Mul(p.position.shares, Pct(10)))

STRATEGIES(id, p) ==
  CASE id = "leek" -> leekStrategy(p)
    [] id = "gambler" -> gamblerStrategy(p)
    [] id = "mom" -> momStrategy(p)
    [] id = "dog" -> dogStrategy(p)
    [] id = "xiaoqing" -> xiaoqingStrategy(p)
    [] id = "soldier" -> soldierStrategy(p)
    [] id = "zen" -> zenStrategy(p)

\* ------------------------------------------------------------------------
\* Registry engine (src/lib/market-service.ts:273-558)
\* ------------------------------------------------------------------------
\* marketMap[symbol]?.price || fallback
MarkPrice(map, symbol, fallback) ==
  IF symbol \in DOMAIN map THEN OrElse(map[symbol].price, fallback) ELSE fallback

\* weeklyStats?.high / weeklyStats?.low (undefined is 0, both falsy)
WeeklyOf(symbol, field) ==
  IF symbol \in DOMAIN weeklyStatsMap THEN weeklyStatsMap[symbol][field] ELSE Zero

\* variant: the symbol loop ends after its first instrument
NextSymbolSettlesEarly == [phase |-> "settle", i |-> pc.i, s |-> 0]

\* for (const symbol of CONFIG.SYMBOLS), then the settlement
NextSymbol ==
  IF pc.s < NumSymbols THEN [pc EXCEPT !.s = pc.s + 1]
  ELSE [phase |-> "settle", i |-> pc.i, s |-> 0]

NextInvestor ==
  IF pc.i < Len(INVESTORS) THEN [phase |-> "load", i |-> pc.i + 1, s |-> 0]
  ELSE Idle

\* moving weighted average cost after a BUY
BuyAvgPrice(oldShares, oldAvgPrice, amountUSD, newShares, price) ==
  IF Gt(newShares, Zero)
  THEN Div(Add(Mul(oldShares, oldAvgPrice), amountUSD), newShares)
  ELSE price

\* variant: a position is never treated as closed
IsFlatNever(newShares) == FALSE

\* at or below 0.01 share the position counts as closed
IsFlat(newShares) == Le(newShares, Frac(1, 100))

\* variant: every BUY is affordable
AffordableAlways(cash, amountUSD) == TRUE

\* currentCash >= decision.amountUSD, the test in front of a BUY
Affordable(cash, amountUSD) == Ge(cash, amountUSD)

\* variant: the timer stays armed when it fires, as an interval timer does
RearmedAtStart(t) == t

\* the daemon loop: the callback that fires is consumed, and the next one is
\* set only after runTradingBot has been awaited (daemon.ts:31, 52)
AfterStart(t) == t - 1

\* setTimeout(loop, TICK_INTERVAL) once the cycle is over
AfterCycle(t, next) == IF next = Idle THEN t + 1 ELSE t

\* variant: a cycle goes on without quotes
NoQuotesNever(map) == FALSE

\* Object.keys(marketMap).length === 0
NoQuotes(map) == DOMAIN map = {}

\* getMarketPrices, getWeeklyStats, todayStr; returns at once on an empty feed
runTradingBot(feed, dt) ==
  /\ timers > 0
  /\ tickCount < MaxTicks
  /\ tickCount' = tickCount + 1
  /\ now' = now + dt
  /\ marketMap' = feed.marketMap
  /\ IF NoQuotes(feed.marketMap)
     THEN /\ pc' = Idle
          /\ UNCHANGED <<weeklyStatsMap, todayStr>>
     ELSE /\ pc' = [phase |-> "load", i |-> 1, s |-> 0]
          /\ weeklyStatsMap' = feed.weeklyStatsMap
          /\ todayStr' = toDateString(now')
  /\ last' = NoStep
  /\ timers' = AfterCycle(AfterStart(timers), pc')
  /\ UNCHANGED <<calls, history, thrown, wrote, submitted, portfolio, positions, trades, equity_snapshots, currentCash,
                 posMap, estimatedEquity, peakEquity, drawdown>>

\* head of the investor loop: portfolio (created if absent), posMap, cash,
\* estimated equity
LoadInvestor ==
  /\ pc.phase = "load"
  /\ LET id == INVESTORS[pc.i]
         row == IF id \in DOMAIN portfolio THEN portfolio[id]
                ELSE [cash_balance |-> Usd(INITIAL_CAPITAL),
                      total_equity |-> Usd(INITIAL_CAPITAL),
                      initial_capital |-> Usd(INITIAL_CAPITAL)]
         pm == PositionsOf(id)
         value == [s \in DOMAIN pm |->
                     Mul(pm[s].shares, MarkPrice(marketMap, s, pm[s].last_action_price))]
     IN /\ portfolio' = Put(portfolio, id, row)
        /\ posMap' = pm
        /\ currentCash' = row.cash_balance
        /\ estimatedEquity' = Add(row.cash_balance, SumOver(DOMAIN pm, value))
  /\ pc' = [phase |-> "symbol", i |-> pc.i, s |-> 1]
  /\ last' = NoStep
  /\ UNCHANGED <<calls, history, thrown, timers, wrote, submitted, now, tickCount, positions, trades, equity_snapshots, marketMap,
                 weeklyStatsMap, todayStr, peakEquity, drawdown>>

\* variant: the log keeps the latest trade of a pair only (an upsert)
UpsertTrade(log, row) ==
  Append(SelectSeq(log, LAMBDA t : ~(t.investor_id = row.investor_id
                                     /\ t.symbol = row.symbol)), row)

\* supabase.from('trades').insert(row)
InsertTrade(log, row) == Append(log, row)

\* the trade log entry, then the position re-read from the store and
\* upserted or deleted
executeUpdate(investorId, symbol, action, sharesDelta, price, amountUSD) ==
  LET key == <<investorId, symbol>>
      currentPos == IF key \in DOMAIN positions THEN positions[key] ELSE NULL
      oldShares == IF currentPos # NULL THEN currentPos.shares ELSE Zero
      oldAvgPrice == IF currentPos # NULL THEN currentPos.avg_price ELSE Zero
      newShares == IF action = "BUY" THEN Add(oldShares, sharesDelta)
                   ELSE Sub(oldShares, sharesDelta)
      newAvgPrice == IF action = "BUY"
                     THEN BuyAvgPrice(oldShares, oldAvgPrice, amountUSD, newShares, price)
                     ELSE oldAvgPrice
      oldLastBuy == IF currentPos # NULL THEN currentPos.last_buy_price ELSE Zero
  IN /\ trades' = InsertTrade(trades, [investor_id |-> investorId, symbol |-> symbol,
                                       action |-> action, shares |-> sharesDelta,
                                       price |-> price, amount |-> amountUSD,
                                       created_at |-> now])
     /\ positions' =
          IF IsFlat(newShares) THEN Remove(positions, key)
          ELSE Put(positions, key,
                   [shares |-> newShares,
                    avg_price |-> newAvgPrice,
                    last_buy_price |-> IF action = "BUY" THEN price
                                       ELSE OrElse(oldLastBuy, price),
                    last_action_price |-> price,
                    updated_at |-> now])

\* variant: one percent of the amount is kept back as a commission
SharesAfterFee(amountUSD, price) == Div(Mul(amountUSD, Pct(99)), price)

\* const shares = decision.amountUSD / market.price
SharesFor(amountUSD, price) == Div(amountUSD, price)

\* variant: a BUY costs one percent more than the amount that is booked
CashAfterBuyWithFee(cash, amountUSD) == Sub(cash, Mul(amountUSD, Pct(101)))

\* currentCash -= decision.amountUSD
CashAfterBuy(cash, amountUSD) == Sub(cash, amountUSD)

\* variant: an instrument without quote is given a flat quote of 100
QuoteOrFlat(map, symbol) ==
  IF symbol \in DOMAIN map THEN map[symbol] ELSE Quote(100, 0)

\* marketMap[symbol]: undefined for an instrument without quote
QuoteOf(map, symbol) == IF symbol \in DOMAIN map THEN map[symbol] ELSE NULL

\* one pass of the symbol loop for the current investor.  The decision is
\* the one of the investor's strategy, or `given` when one is handed in.
SymbolStep(roll, given) ==
  /\ pc.phase = "symbol"
  /\ pc' = NextSymbol
  /\ LET id == INVESTORS[pc.i]
         symbol == SYMBOLS[pc.s]
     IN IF QuoteOf(marketMap, symbol) = NULL
        THEN /\ last' = NoStep
             /\ UNCHANGED <<currentCash, trades, positions>>
        ELSE
          LET market == QuoteOf(marketMap, symbol)
              pos == IF symbol \in DOMAIN posMap THEN posMap[symbol] ELSE NULL
              isTradedToday == IF pos # NULL
                               THEN toDateString(pos.updated_at) = todayStr
                               ELSE FALSE
              params == [symbol |-> symbol, price |-> market.price,
                         cash |-> currentCash, position |-> pos,
                         isTradedToday |-> isTradedToday,
                         totalEquity |-> estimatedEquity, marketData |-> market,
                         weeklyHigh |-> WeeklyOf(symbol, "high"),
                         weeklyLow |-> WeeklyOf(symbol, "low"),
                         roll |-> roll]
              decision == IF given = NULL THEN STRATEGIES(id, params) ELSE given
              seen == [investor |-> id, symbol |-> symbol,
                       action |-> decision.action,
                       amountUSD |-> decision.amountUSD, shares |-> decision.shares,
                       cash |-> currentCash, isTradedToday |-> isTradedToday,
                       held |-> IF pos # NULL THEN pos.shares ELSE Zero,
                       executed |-> FALSE]
              asked == IF decision.shares = Zero /\ decision.amountUSD # Zero
                       THEN Div(decision.amountUSD, market.price)
                       ELSE decision.shares
              sharesToSell == IF pos # NULL THEN MathMin(asked, pos.shares) ELSE Zero
          IN IF decision.action = "BUY" /\ decision.amountUSD # Zero
                /\ Affordable(currentCash, decision.amountUSD)
             THEN /\ currentCash' = CashAfterBuy(currentCash, decision.amountUSD)
                  /\ executeUpdate(id, symbol, "BUY",
                                   SharesFor(decision.amountUSD, market.price),
                                   market.price, decision.amountUSD)
                  /\ last' = [seen EXCEPT !.executed = TRUE]
             ELSE IF decision.action = "SELL" /\ pos # NULL
                     /\ ~(decision.action = "BUY" /\ decision.amountUSD # Zero)
                     /\ Gt(sharesToSell, Zero)
             THEN /\ currentCash' = Add(currentCash, Mul(sharesToSell, market.price))
                  /\ executeUpdate(id, symbol, "SELL", sharesToSell, market.price,
                                   Mul(sharesToSell, market.price))
                  /\ last' = [seen EXCEPT !.executed = TRUE]
             ELSE /\ last' = seen
                  /\ UNCHANGED <<currentCash, trades, positions>>
  /\ UNCHANGED <<calls, history, thrown, now, tickCount, portfolio, equity_snapshots, marketMap,
                 weeklyStatsMap, todayStr, posMap, estimatedEquity, peakEquity,
                 drawdown>>

\* the symbol step as the engine runs it
ProcessSymbol(roll) ==
  /\ SymbolStep(roll, NULL)
  /\ UNCHANGED <<timers, wrote, submitted>>

\* BUY decisions handed to the symbol step in place of the strategy's answer
BuyOrders == {Buy(Usd(700000))}

\* the symbol step run on a decision handed in
SubmitDecision(decision) ==
  /\ submitted < MaxSubmitted
  /\ submitted' = submitted + 1
  /\ SymbolStep(FALSE, decision)
  /\ UNCHANGED <<timers, wrote>>

\* settlement: positions re-read, equity recomputed, portfolio updated,
\* snapshot appended
SettleInvestor ==
  /\ pc.phase = "settle"
  /\ LET investorId == INVESTORS[pc.i]
         ps == PositionsOf(investorId)
         value == [s \in DOMAIN ps |->
                     Mul(ps[s].shares, MarkPrice(marketMap, s, ps[s].last_action_price))]
         totalEquity == Add(currentCash, SumOver(DOMAIN ps, value))
     IN /\ portfolio' = Put(portfolio, investorId,
                            [portfolio[investorId] EXCEPT
                               !.cash_balance = currentCash,
                               !.total_equity = totalEquity])
        /\ equity_snapshots' = Append(equity_snapshots,
                                      [investor_id |-> investorId,
                                       total_equity |-> totalEquity,
                                       cash_balance |-> currentCash,
                                       created_at |-> now])
  /\ last' = NoStep
  /\ UNCHANGED <<calls, history, thrown, wrote, submitted, now, tickCount, positions, trades,
                 marketMap, weeklyStatsMap, todayStr, currentCash, posMap,
                 estimatedEquity, peakEquity, drawdown>>

\* the settlement of an investor, and the next investor or the end of the
\* cycle
finalizePortfolio ==
  /\ SettleInvestor
  /\ pc' = NextInvestor
  /\ timers' = AfterCycle(timers, pc')

Next ==
  \/ \E feed \in Feeds, dt \in Elapsed : runTradingBot(feed, dt)
  \/ LoadInvestor
  \/ pc.phase = "symbol" /\ \E roll \in RollsOf(INVESTORS[pc.i]) : ProcessSymbol(roll)
  \/ finalizePortfolio

Spec == Init /\ [][Next]_vars

\* the registry engine driven by its strategies and, up to MaxSubmitted
\* times, by a BUY decision handed in
NextOrders ==
  \/ Next
  \/ pc.phase = "symbol" /\ \E decision \in BuyOrders : SubmitDecision(decision)

SpecOrders == Init /\ [][NextOrders]_vars

\* SELL decisions handed to the symbol step: an amount that is worth more
\* than some positions and less than others
SellOrders == {[action |-> "SELL", amountUSD |-> Usd(150000), shares |-> Zero]}

\* the registry engine driven by its strategies and, up to MaxSubmitted
\* times, by a SELL decision handed in
NextSells ==
  \/ Next
  \/ pc.phase = "symbol" /\ \E decision \in SellOrders : SubmitDecision(decision)

SpecSells == Init /\ [][NextSells]_vars

\* a BUY decision of half a dollar handed to the symbol step
SmallOrders == {Buy(Frac(1, 2000))}

\* the registry engine driven by its strategies and, up to MaxSubmitted
\* times, by a BUY decision of half a dollar
NextSmall ==
  \/ Next
  \/ pc.phase = "symbol" /\ \E decision \in SmallOrders : SubmitDecision(decision)

SpecSmall == Init /\ [][NextSmall]_vars

\* feeds of a slump: every symbol flat, or every symbol down by 90 percent
FloorFeeds ==
  { [marketMap |-> [s \in SymbolSet |-> Quote(100, 0)],
     weeklyStatsMap |-> [s \in SymbolSet |-> WeeklyStats]],
    [marketMap |-> [s \in SymbolSet |-> Quote(10, -90)],
     weeklyStatsMap |-> [s \in SymbolSet |-> WeeklyStats]] }

\* the registry engine under these feeds, driven by its strategies and, up
\* to MaxSubmitted times, by a BUY decision handed in
NextFloor ==
  \/ \E feed \in FloorFeeds, dt \in Elapsed : runTradingBot(feed, dt)
  \/ LoadInvestor
  \/ pc.phase = "symbol" /\ \E roll \in RollsOf(INVESTORS[pc.i]) : ProcessSymbol(roll)
  \/ pc.phase = "symbol" /\ \E decision \in BuyOrders : SubmitDecision(decision)
  \/ finalizePortfolio

SpecFloor == Init /\ [][NextFloor]_vars

\* time between two ticks counted to the half day: also twelve hours, which
\* can lead from one calendar day into the next
ElapsedHalfDays == Elapsed \cup {1}

\* the registry engine with ticks that may lie twelve hours apart
NextHalfDays ==
  \/ \E feed \in Feeds, dt \in ElapsedHalfDays : runTradingBot(feed, dt)
  \/ LoadInvestor
  \/ pc.phase = "symbol" /\ \E roll \in RollsOf(INVESTORS[pc.i]) : ProcessSymbol(roll)
  \/ finalizePortfolio

SpecHalfDays == Init /\ [][NextHalfDays]_vars

\* the store does not answer while an investor is loaded: the select and the
\* insert of the portfolio both yield no row, Number(portfolio.cash_balance)
\* throws on null, runTradingBot ends with that exception and the daemon
\* catches it and sets the next timer (daemon.ts:29-34, 52)
StoreFailsOnLoad ==
  /\ pc.phase = "load"
  /\ pc' = Idle
  /\ timers' = AfterCycle(timers, pc')
  /\ last' = NoStep
  /\ UNCHANGED <<calls, history, thrown, wrote, submitted, now, tickCount, portfolio, positions, trades,
                 equity_snapshots, marketMap, weeklyStatsMap, todayStr, currentCash,
                 posMap, estimatedEquity, peakEquity, drawdown>>

\* the registry engine with a store that may fail
NextFaults ==
  \/ Next
  \/ StoreFailsOnLoad

SpecFaults == Init /\ [][NextFaults]_vars

\* the head of runTradingBot up to the quote request: the timer callback
\* runs, and getMarketPrices awaits fetch(url), which carries no timeout
\* and no abort signal
AwaitQuotes(dt) ==
  /\ timers > 0
  /\ tickCount < MaxTicks
  /\ tickCount' = tickCount + 1
  /\ now' = now + dt
  /\ pc' = [phase |-> "fetch", i |-> 0, s |-> 0]
  /\ timers' = AfterStart(timers)
  /\ last' = NoStep
  /\ UNCHANGED <<calls, history, thrown, wrote, submitted, portfolio, positions, trades, equity_snapshots,
                 marketMap, weeklyStatsMap, todayStr, currentCash, posMap,
                 estimatedEquity, peakEquity, drawdown>>

\* the quote provider answers (a failed request is the empty feed) and
\* runTradingBot goes on as from its head
QuotesArrive(feed) ==
  /\ pc.phase = "fetch"
  /\ marketMap' = feed.marketMap
  /\ IF NoQuotes(feed.marketMap)
     THEN /\ pc' = Idle
          /\ UNCHANGED <<weeklyStatsMap, todayStr>>
     ELSE /\ pc' = [phase |-> "load", i |-> 1, s |-> 0]
          /\ weeklyStatsMap' = feed.weeklyStatsMap
          /\ todayStr' = toDateString(now)
  /\ timers' = AfterCycle(timers, pc')
  /\ UNCHANGED <<calls, history, thrown, now, tickCount, last, wrote, submitted, portfolio, positions, trades,
                 equity_snapshots, currentCash, posMap, estimatedEquity, peakEquity,
                 drawdown>>

\* the steps the engine takes by itself once the call it awaits has
\* returned
EngineSteps ==
  \/ LoadInvestor
  \/ pc.phase = "symbol" /\ \E roll \in RollsOf(INVESTORS[pc.i]) : ProcessSymbol(roll)
  \/ finalizePortfolio

\* the registry engine with the quote request as a step of its own
NextAwait ==
  \/ \E dt \in Elapsed : AwaitQuotes(dt)
  \/ \E feed \in Feeds : QuotesArrive(feed)
  \/ EngineSteps

\* the event loop resumes an async function whose awaited call has
\* returned; whether the quote provider answers is not up to the program
SpecAwait == Init /\ [][NextAwait]_vars /\ WF_vars(EngineSteps)

\* ------------------------------------------------------------------------
\* The daemon loop (src/scripts/daemon.ts): the trading cycle, then on every
\* SYNC_EVERY_TICKS-th tick the candle sync of every symbol, then the timer
\* ------------------------------------------------------------------------
SYNC_EVERY_TICKS == 12

MaxDaemonTicks == 13

MaxThrown == 1

\* what the quote request returns while the daemon runs: quotes for every
\* symbol, or nothing
DaemonFeeds ==
  {feed \in Feeds : DOMAIN feed.marketMap = {}
                    \/ \A s \in SymbolSet : s \in DOMAIN feed.marketMap
                                            /\ feed.marketMap[s] = Quote(100, 0)}

\* variant: the candle sync runs in every tick
AfterTradingAlways(n) == [phase |-> "sync", i |-> 0, s |-> 1]

\* where loop() stands once runTradingBot has returned or thrown in tick
\* number n: at the candle sync of the first symbol, or at setTimeout
AfterTrading(n) ==
  IF n % SYNC_EVERY_TICKS = 0 THEN [phase |-> "sync", i |-> 0, s |-> 1] ELSE Idle

\* loop(): tickCount++, and runTradingBot up to its investor loop.  Ticks
\* are 5 seconds apart, so the clock of half days stands still.
loop(feed) ==
  /\ timers > 0
  /\ tickCount < MaxDaemonTicks
  /\ tickCount' = tickCount + 1
  /\ marketMap' = feed.marketMap
  /\ IF NoQuotes(feed.marketMap)
     THEN /\ pc' = AfterTrading(tickCount')
          /\ UNCHANGED <<weeklyStatsMap, todayStr>>
     ELSE /\ pc' = [phase |-> "load", i |-> 1, s |-> 0]
          /\ weeklyStatsMap' = feed.weeklyStatsMap
          /\ todayStr' = toDateString(now)
  /\ last' = NoStep
  /\ timers' = AfterCycle(AfterStart(timers), pc')
  /\ UNCHANGED <<calls, history, thrown, now, wrote, submitted, portfolio, positions, trades,
                 equity_snapshots, currentCash, posMap, estimatedEquity, peakEquity,
                 drawdown>>

\* the settlement of an investor inside the daemon: the next investor, or
\* runTradingBot returns to loop()
SettleInDaemon ==
  /\ SettleInvestor
  /\ pc' = IF pc.i < Len(INVESTORS) THEN NextInvestor ELSE AfterTrading(tickCount)
  /\ timers' = AfterCycle(timers, pc')

\* variant: the exception leaves loop() and nothing runs after it
Uncaught(n) == [phase |-> "crashed", i |-> 0, s |-> 0]

\* catch (error) { console.error(...) }: loop() goes on behind the try
\* statement as after a normal return
Caught(n) == AfterTrading(n)

\* runTradingBot throws while an investor is loaded (the store gave no
\* portfolio row); loop() catches and logs the exception and goes on
ThrowInDaemon ==
  /\ pc.phase = "load"
  /\ thrown < MaxThrown
  /\ thrown' = thrown + 1
  /\ pc' = Caught(tickCount)
  /\ timers' = AfterCycle(timers, pc')
  /\ last' = NoStep
  /\ UNCHANGED <<calls, history, now, tickCount, wrote, submitted, portfolio, positions, trades,
                 equity_snapshots, marketMap, weeklyStatsMap, todayStr, currentCash,
                 posMap, estimatedEquity, peakEquity, drawdown>>

\* one pass of the sync loop: syncSymbolHistory(sym) fetches the candles
\* and upserts them, or fails and returns (it catches its own exceptions);
\* after the last symbol loop() sets the timer
syncSymbolHistory(ok) ==
  /\ pc.phase = "sync"
  /\ history' = [history EXCEPT ![SYMBOLS[pc.s]] =
                   [called |-> tickCount,
                    stored |-> IF ok THEN tickCount ELSE @.stored]]
  /\ pc' = IF pc.s < NumSymbols THEN [pc EXCEPT !.s = pc.s + 1] ELSE Idle
  /\ timers' = AfterCycle(timers, pc')
  /\ UNCHANGED <<calls, thrown, last, now, tickCount, wrote, submitted, portfolio, positions,
                 trades, equity_snapshots, marketMap, weeklyStatsMap, todayStr,
                 currentCash, posMap, estimatedEquity, peakEquity, drawdown>>

NextDaemon ==
  \/ \E feed \in DaemonFeeds : loop(feed)
  \/ LoadInvestor
  \/ pc.phase = "symbol" /\ \E roll \in RollsOf(INVESTORS[pc.i]) : ProcessSymbol(roll)
  \/ SettleInDaemon
  \/ ThrowInDaemon
  \/ \E ok \in BOOLEAN : syncSymbolHistory(ok)

SpecDaemon == Init /\ [][NextDaemon]_vars

\* ------------------------------------------------------------------------
\* Switch engine (src/lib/engine.ts:1-355): strategies inlined in a switch,
\* peak equity and drawdown computed at the head of the investor loop, no
\* daily throttle, positions rows [shares, avg_price, last_buy_price,
\* updated_at]
\* ------------------------------------------------------------------------
\* feeds of the switch engine: flat, a higher quote on a falling day, crash,
\* empty
FeedsSwitch ==
  { [s \in SymbolSet |-> Quote(90000000, 0)],
    [s \in SymbolSet |-> Quote(99000000, -6)],
    [s \in SymbolSet |-> Quote(36000000, -60)],
    [s \in {} |-> Quote(90000000, 0)] }

\* variant: the peak follows every change of the equity
RaisesPeakOnChange(peak, equity) == equity # peak

\* currentTotalEquity > peakEquity (engine.ts:191)
RaisesPeak(peak, equity) == Gt(equity, peak)

\* the larger of the stored peak and the equity just computed
PeakAfter(peak, equity) == IF RaisesPeak(peak, equity) THEN equity ELSE peak

\* the trade amount below which executeTrade books nothing (engine.ts:80)
MinTradeAmount == Usd(1)

\* the share count below which the result of a trade counts as empty
DustLimit == Frac(1, 10000)

\* executeTrade up to its writes (engine.ts:65-96): the trade it will book,
\* or ok = FALSE when it returns null
TradePlan(action, amountUSD, price, currentShares, currentAvgPrice, cash) ==
  LET tradeShares == IF action = "BUY" THEN Div(amountUSD, price)
                     ELSE IF action = "SELL_ALL" THEN currentShares
                     ELSE MathMin(Div(amountUSD, price), currentShares)
      tradeAmount == Mul(tradeShares, price)
      newCash == IF action = "BUY" THEN Sub(cash, tradeAmount)
                 ELSE Add(cash, tradeAmount)
      newShares == IF action = "BUY" THEN Add(currentShares, tradeShares)
                   ELSE Sub(currentShares, tradeShares)
      bought == IF Gt(newShares, Zero)
                THEN Div(Add(Mul(currentShares, currentAvgPrice), tradeAmount), newShares)
                ELSE Zero
      avg == IF action = "BUY" THEN bought ELSE currentAvgPrice
  IN [ok |-> ~(action = "BUY" /\ Lt(cash, amountUSD)) /\ ~Lt(tradeAmount, Usd(1)),
      tradeShares |-> tradeShares,
      tradeAmount |-> tradeAmount,
      newCash |-> newCash,
      newShares |-> newShares,
      newAvgPrice |-> IF Le(newShares, DustLimit) THEN Zero ELSE avg]

\* the row is deleted only when the new share count is exactly 0
RowDeleted(newShares) == newShares = Zero

\* the writes of executeTrade (engine.ts:98-138)
executeTrade(investorId, symbol, action, price, plan) ==
  LET key == <<investorId, symbol>>
  IN /\ trades' = Append(trades, [investor_id |-> investorId, symbol |-> symbol,
                                  action |-> IF action = "SELL_ALL" THEN "SELL"
                                             ELSE action,
                                  shares |-> plan.tradeShares, price |-> price,
                                  amount |-> plan.tradeAmount, created_at |-> now])
     /\ positions' =
          IF RowDeleted(plan.newShares) THEN Remove(positions, key)
          ELSE Put(positions, key,
                   [shares |-> plan.newShares, avg_price |-> plan.newAvgPrice,
                    last_buy_price |-> price, updated_at |-> now])

NoTrade == [action |-> "NONE", amountUSD |-> Zero, shares |-> Zero, avgPrice |-> Zero]

Order(action, amountUSD, shares, avgPrice) ==
  [action |-> action, amountUSD |-> amountUSD, shares |-> shares, avgPrice |-> avgPrice]

\* the switch over investor.id (engine.ts:214-305): the executeTrade call it
\* makes, if any.  c bundles the locals of the symbol loop.
SwitchOrder(id, c) ==
  LET value == Mul(c.shares, c.price)
      entry(amt) == Order("BUY", Usd(amt), Zero, Zero)
      add(amt) == Order("BUY", amt, c.shares, c.avgPrice)
      sell(amt) == Order("SELL", amt, c.shares, c.avgPrice)
      sellAll == Order("SELL_ALL", Zero, c.shares, c.avgPrice)
      above(k) == Gt(c.price, Mul(c.lastPrice, Pct(k)))
      below(k) == Lt(c.price, Mul(c.lastPrice, Pct(k)))
      has(amt) == Ge(c.cash, Usd(amt))
  IN CASE id = "soldier" ->
            IF Gt(c.drawdown, Pct(10))
            THEN (IF c.hasPos /\ above(102) THEN sell(Mul(value, Pct(20))) ELSE NoTrade)
            ELSE IF ~c.hasPos /\ has(100000) THEN entry(100000)
            ELSE IF c.hasPos /\ below(98) /\ has(10000) THEN add(Usd(10000))
            ELSE IF c.hasPos /\ above(102) THEN sell(Mul(value, Pct(20)))
            ELSE NoTrade
       [] id = "xiaoqing" ->
            IF ~c.hasPos /\ has(100000) THEN entry(100000)
            ELSE IF c.hasPos /\ below(85) /\ has(50000) THEN add(Usd(50000))
            ELSE NoTrade
       [] id = "dog" ->
            IF ~c.hasPos /\ Ge(Sub(c.cash, Usd(800000)), Usd(40000)) THEN entry(40000)
            ELSE IF c.hasPos /\ above(105) THEN sell(Mul(value, Pct(50)))
            ELSE IF c.hasPos /\ below(98) THEN sellAll
            ELSE NoTrade
       [] id = "mom" ->
            IF ~c.hasPos /\ has(200000) THEN entry(200000)
            ELSE IF c.hasPos /\ above(120) THEN sell(Mul(value, Pct(20)))
            ELSE IF c.hasPos /\ below(95) THEN sellAll
            ELSE NoTrade
       [] id = "gambler" ->
            IF ~c.hasPos /\ has(10000) THEN entry(10000)
            ELSE IF c.hasPos /\ below(90) /\ Ge(c.cash, value) THEN add(value)
            ELSE IF c.hasPos /\ Gt(c.price, Mul(c.avgPrice, Pct(101))) THEN sellAll
            ELSE NoTrade
       [] id = "leek" ->
            IF ~c.hasPos /\ has(50000) THEN entry(50000)
            ELSE IF c.hasPos /\ Gt(c.changePercent, Pct(5)) /\ has(50000)
              THEN add(Usd(50000))
            ELSE IF c.hasPos /\ Lt(c.changePercent, Pct(-5)) THEN sell(Usd(50000))
            ELSE NoTrade
       [] id = "zen" ->
            IF ~c.hasPos /\ has(50000) THEN entry(50000)
            ELSE IF c.hasPos /\ c.dayPassed
              THEN (IF c.dice /\ has(10000) THEN add(Usd(10000)) ELSE sell(Usd(10000)))
            ELSE NoTrade

\* getMarketPrices; returns at once on an empty feed (engine.ts:144-146)
runTradingBotSwitch(feed, dt) ==
  /\ timers > 0
  /\ tickCount < MaxTicks
  /\ tickCount' = tickCount + 1
  /\ now' = now + dt
  /\ marketMap' = feed
  /\ pc' = IF NoQuotes(feed) THEN Idle ELSE [phase |-> "load", i |-> 1, s |-> 0]
  /\ last' = NoStep
  /\ timers' = AfterCycle(AfterStart(timers), pc')
  /\ UNCHANGED <<calls, history, thrown, wrote, submitted, portfolio, positions, trades, equity_snapshots, weeklyStatsMap,
                 todayStr, currentCash, posMap, estimatedEquity, peakEquity,
                 drawdown>>

\* head of the investor loop (engine.ts:148-195): portfolio (created if
\* absent), in-memory ledger, peak equity and drawdown
LoadInvestorSwitch ==
  /\ pc.phase = "load"
  /\ LET id == INVESTORS[pc.i]
         row == IF id \in DOMAIN portfolio THEN portfolio[id]
                ELSE [cash_balance |-> Usd(INITIAL_CAPITAL),
                      total_equity |-> Usd(INITIAL_CAPITAL),
                      initial_capital |-> Usd(INITIAL_CAPITAL),
                      peak_equity |-> Usd(INITIAL_CAPITAL)]
         pm == PositionsOf(id)
         value == [s \in DOMAIN pm |->
                     Mul(pm[s].shares, MarkPrice(marketMap, s, pm[s].last_buy_price))]
         currentTotalEquity == Add(row.cash_balance, SumOver(DOMAIN pm, value))
         stored == OrElse(row.peak_equity, row.total_equity)
         peak == PeakAfter(stored, currentTotalEquity)
     IN /\ portfolio' = Put(portfolio, id,
                            IF RaisesPeak(stored, currentTotalEquity)
                            THEN [row EXCEPT !.peak_equity = peak]
                            ELSE row)
        /\ posMap' = pm
        /\ currentCash' = row.cash_balance
        /\ estimatedEquity' = currentTotalEquity
        /\ peakEquity' = peak
        /\ drawdown' = IF Gt(peak, Zero) THEN Div(Sub(peak, currentTotalEquity), peak)
                       ELSE Zero
  /\ pc' = [phase |-> "symbol", i |-> pc.i, s |-> 1]
  /\ last' = NoStep
  /\ UNCHANGED <<calls, history, thrown, timers, wrote, submitted, now, tickCount,
                 positions, trades, equity_snapshots, marketMap, weeklyStatsMap,
                 todayStr>>

\* one pass of the symbol loop (engine.ts:198-326)
ProcessSymbolSwitch(dice) ==
  /\ pc.phase = "symbol"
  /\ pc' = NextSymbol
  /\ LET id == INVESTORS[pc.i]
         symbol == SYMBOLS[pc.s]
     IN IF symbol \notin DOMAIN marketMap
        THEN /\ last' = NoStep
             /\ UNCHANGED <<currentCash, posMap, trades, positions>>
        ELSE
          LET data == marketMap[symbol]
              pos == IF symbol \in DOMAIN posMap THEN posMap[symbol] ELSE NULL
              shares == IF pos # NULL THEN pos.shares ELSE Zero
              lastPrice == IF pos # NULL THEN pos.last_buy_price ELSE Zero
              lastUpdateTime == IF pos # NULL THEN pos.updated_at ELSE 0
              c == [price |-> data.price, changePercent |-> data.changePercent,
                    shares |-> shares,
                    avgPrice |-> IF pos # NULL THEN pos.avg_price ELSE Zero,
                    lastPrice |-> lastPrice,
                    hasPos |-> Gt(shares, Zero),
                    cash |-> currentCash, drawdown |-> drawdown,
                    dayPassed |-> now - lastUpdateTime >= 2,
                    dice |-> dice]
              order == SwitchOrder(id, c)
              plan == TradePlan(order.action, order.amountUSD, data.price,
                                order.shares, order.avgPrice, currentCash)
              seen == [investor |-> id, symbol |-> symbol, action |-> order.action,
                       amountUSD |-> order.amountUSD, shares |-> Zero,
                       cash |-> currentCash, isTradedToday |-> FALSE,
                       held |-> shares, executed |-> FALSE]
          IN IF order.action # "NONE" /\ plan.ok
             THEN /\ executeTrade(id, symbol, order.action, data.price, plan)
                  /\ currentCash' = plan.newCash
                  /\ posMap' =
                       IF Gt(plan.newShares, Zero)
                       THEN Put(posMap, symbol,
                                [shares |-> plan.newShares,
                                 avg_price |-> plan.newAvgPrice,
                                 last_buy_price |-> IF Gt(plan.newShares, shares)
                                                    THEN data.price ELSE lastPrice,
                                 updated_at |-> now])
                       ELSE Remove(posMap, symbol)
                  /\ last' = [seen EXCEPT !.executed = TRUE,
                                          !.shares = plan.tradeShares]
             ELSE /\ last' = seen
                  /\ UNCHANGED <<currentCash, posMap, trades, positions>>
  /\ UNCHANGED <<calls, history, thrown, timers, wrote, submitted, now, tickCount, portfolio, equity_snapshots, marketMap,
                 weeklyStatsMap, todayStr, estimatedEquity, peakEquity, drawdown>>

\* settlement from the in-memory ledger (engine.ts:328-353)
SettleSwitch ==
  /\ pc.phase = "settle"
  /\ LET id == INVESTORS[pc.i]
         value == [s \in DOMAIN posMap |->
                     Mul(posMap[s].shares,
                         MarkPrice(marketMap, s, posMap[s].last_buy_price))]
         finalTotalEquity == Add(currentCash, SumOver(DOMAIN posMap, value))
     IN /\ portfolio' = Put(portfolio, id,
                            [portfolio[id] EXCEPT !.cash_balance = currentCash,
                                                  !.total_equity = finalTotalEquity])
        /\ equity_snapshots' = Append(equity_snapshots,
                                      [investor_id |-> id,
                                       total_equity |-> finalTotalEquity,
                                       cash_balance |-> currentCash,
                                       created_at |-> now])
  /\ pc' = NextInvestor
  /\ timers' = AfterCycle(timers, pc')
  /\ last' = NoStep
  /\ UNCHANGED <<calls, history, thrown, wrote, submitted, now, tickCount, positions, trades, marketMap, weeklyStatsMap,
                 todayStr, currentCash, posMap, estimatedEquity, peakEquity,
                 drawdown>>

NextSwitch ==
  \/ \E feed \in FeedsSwitch, dt \in Elapsed : runTradingBotSwitch(feed, dt)
  \/ LoadInvestorSwitch
  \/ pc.phase = "symbol"
       /\ \E dice \in RollsOf(INVESTORS[pc.i]) : ProcessSymbolSwitch(dice)
  \/ SettleSwitch

SpecSwitch == Init /\ [][NextSwitch]_vars

\* scripts/reset-account.ts, run between two cycles and without error: all
\* trades, positions and snapshots are deleted and every portfolio row gets
\* cash_balance and total_equity of INITIAL_CAPITAL; no other column is
\* written
resetAccount ==
  /\ pc = Idle
  /\ trades # <<>>
  /\ trades' = <<>>
  /\ positions' = [x \in {} |-> NULL]
  /\ equity_snapshots' = <<>>
  /\ portfolio' = [id \in DOMAIN portfolio |->
                     [portfolio[id] EXCEPT !.cash_balance = Usd(INITIAL_CAPITAL),
                                           !.total_equity = Usd(INITIAL_CAPITAL)]]
  /\ UNCHANGED <<calls, history, thrown, timers, wrote, submitted, now, tickCount,
                 marketMap, weeklyStatsMap, todayStr, pc, currentCash, posMap,
                 estimatedEquity, peakEquity, drawdown, last>>

\* the switch engine with a reset of the accounts between cycles
NextReset ==
  \/ NextSwitch
  \/ resetAccount

SpecReset == Init /\ [][NextReset]_vars


\* ------------------------------------------------------------------------
\* Earlier engine (src/lib/engine.ts:356-682): portfolios are read, never
\* created; executeTrade writes the cash and re-reads the position; the peak
\* is raised at settlement; an empty feed is replaced by mock prices
\* ------------------------------------------------------------------------
\* basePrices of getMockPrices
basePrices == [s \in SymbolSet |-> IF s = "QQQ" THEN 440 ELSE IF s = "GLD" THEN 200
                                   ELSE IF s = "SPY" THEN 500 ELSE 100]

\* getMockPrices: base * (1 + changePct), changePct drawn in [-3%, 3%)
MockPrices ==
  { [s \in SymbolSet |-> Quote(basePrices[s], 0)],
    [s \in SymbolSet |-> [price |-> Mul(Usd(basePrices[s]), Frac(1024, 1000)),
                          changePercent |-> Frac(24, 1000)]] }

\* what the quote provider answers: up 25%, crash, or nothing
FeedsLegacy ==
  { [s \in SymbolSet |-> [price |-> Mul(Usd(basePrices[s]), Pct(125)),
                          changePercent |-> Pct(25)]],
    [s \in SymbolSet |-> [price |-> Mul(Usd(basePrices[s]), Pct(40)),
                          changePercent |-> Pct(-60)]],
    [s \in {} |-> Quote(100, 0)] }

\* the portfolio table as reset-account leaves it
InitLegacy ==
  /\ now = 0
  /\ tickCount = 0
  /\ portfolio = [id \in InvestorSet |->
                    [cash_balance |-> Usd(INITIAL_CAPITAL),
                     total_equity |-> Usd(INITIAL_CAPITAL),
                     initial_capital |-> Usd(INITIAL_CAPITAL),
                     peak_equity |-> Usd(INITIAL_CAPITAL)]]
  /\ positions = [x \in {} |-> NULL]
  /\ trades = <<>>
  /\ equity_snapshots = <<>>
  /\ marketMap = [x \in {} |-> NULL]
  /\ weeklyStatsMap = [x \in {} |-> NULL]
  /\ todayStr = 0
  /\ pc = Idle
  /\ currentCash = Zero
  /\ posMap = [x \in {} |-> NULL]
  /\ estimatedEquity = Zero
  /\ peakEquity = Zero
  /\ drawdown = Zero
  /\ last = NoStep
  /\ submitted = 0
  /\ wrote = <<>>
  /\ timers = 1
  /\ history = [s \in SymbolSet |-> [called |-> 0, stored |-> 0]]
  /\ thrown = 0
  /\ calls = <<>>

\* below 0.001 share left after a SELL the row is deleted
IsSoldOut(finalShares) == Lt(finalShares, Frac(1, 1000))

\* executeTrade up to its writes (engine.ts:460-476)
TradePlanLegacy(action, amountUSD, price, shares, cash) ==
  LET tradeShares == IF action = "BUY" THEN Div(amountUSD, price)
                     ELSE IF action = "SELL" THEN MathMin(Div(amountUSD, price), shares)
                     ELSE shares
      tradeAmount == IF action = "BUY" THEN amountUSD ELSE Mul(tradeShares, price)
  IN [ok |-> /\ ~(action = "BUY" /\ Lt(cash, amountUSD))
             /\ ~(Lt(tradeAmount, Usd(10)) \/ Le(tradeShares, Zero)),
      tradeShares |-> tradeShares,
      tradeAmount |-> tradeAmount,
      newCash |-> IF action = "BUY" THEN Sub(cash, tradeAmount)
                  ELSE Add(cash, tradeAmount)]

\* the position left by a trade (engine.ts:495-525): the row re-read from the
\* store, then upserted, updated or deleted
PositionAfterLegacy(key, action, price, plan) ==
  LET oldPos == IF key \in DOMAIN positions THEN positions[key] ELSE NULL
      oldShares == IF oldPos # NULL THEN oldPos.shares ELSE Zero
      oldAvgPrice == IF oldPos # NULL THEN oldPos.avg_price ELSE Zero
      bought == Add(oldShares, plan.tradeShares)
      left == Sub(oldShares, plan.tradeShares)
  IN IF action = "BUY"
     THEN [finalShares |-> bought,
           table |-> Put(positions, key,
                         [shares |-> bought,
                          avg_price |-> Div(Add(Mul(oldShares, oldAvgPrice),
                                                plan.tradeAmount), bought),
                          last_buy_price |-> price,
                          created_at |-> IF oldPos # NULL THEN oldPos.created_at
                                         ELSE now])]
     ELSE IF IsSoldOut(left)
     THEN [finalShares |-> Zero, table |-> Remove(positions, key)]
     ELSE [finalShares |-> left,
           table |-> IF oldPos # NULL
                     THEN Put(positions, key, [oldPos EXCEPT !.shares = left])
                     ELSE positions]

\* the writes of executeTrade (engine.ts:481-525)
executeTradeLegacy(investorId, symbol, action, price, plan) ==
  /\ trades' = Append(trades, [investor_id |-> investorId, symbol |-> symbol,
                               action |-> IF action = "SELL_ALL" THEN "SELL"
                                          ELSE action,
                               shares |-> plan.tradeShares, price |-> price,
                               amount |-> plan.tradeAmount, created_at |-> now])
  /\ portfolio' = Put(portfolio, investorId,
                      [portfolio[investorId] EXCEPT !.cash_balance = plan.newCash])
  /\ positions' = PositionAfterLegacy(<<investorId, symbol>>, action, price, plan).table

\* the switch over investorId (engine.ts:576-654): the trade(...) call it
\* makes, if any, as [action, amountUSD, shares]
LegacyOrder(id, c) ==
  LET value == Mul(c.shares, c.price)
      buy(amt) == [action |-> "BUY", amountUSD |-> amt, shares |-> Zero]
      sell(amt) == [action |-> "SELL", amountUSD |-> amt, shares |-> c.shares]
      sellAll == [action |-> "SELL_ALL", amountUSD |-> Zero, shares |-> c.shares]
      none == [action |-> "NONE", amountUSD |-> Zero, shares |-> Zero]
      above(k) == Gt(c.price, Mul(c.lastBuyPrice, Pct(k)))
      below(k) == Lt(c.price, Mul(c.lastBuyPrice, Pct(k)))
      has(amt) == Ge(c.cash, Usd(amt))
  IN CASE id = "leek" ->
            IF ~c.hasPos /\ has(50000) THEN buy(Usd(50000))
            ELSE IF Gt(c.changePercent, Pct(5)) THEN buy(Usd(50000))
            ELSE IF Lt(c.changePercent, Pct(-5)) THEN sell(Usd(50000))
            ELSE none
       [] id = "gambler" ->
            IF ~c.hasPos /\ has(10000) THEN buy(Usd(10000))
            ELSE IF below(90) THEN (IF Ge(c.cash, value) THEN buy(value) ELSE none)
            ELSE IF Gt(c.price, Mul(c.avgPrice, Pct(101))) THEN sellAll
            ELSE none
       [] id = "mom" ->
            IF ~c.hasPos /\ has(200000) THEN buy(Usd(200000))
            ELSE IF above(120) THEN sell(Mul(value, Pct(20)))
            ELSE IF below(95) THEN sellAll
            ELSE none
       [] id = "dog" ->
            IF ~c.hasPos /\ Ge(Sub(c.cash, Usd(800000)), Usd(40000)) THEN buy(Usd(40000))
            ELSE IF above(105) THEN sell(Mul(value, Pct(50)))
            ELSE IF below(98) THEN sellAll
            ELSE none
       [] id = "xiaoqing" ->
            IF ~c.hasPos /\ has(100000) THEN buy(Usd(100000))
            ELSE IF below(85) /\ has(50000) THEN buy(Usd(50000))
            ELSE none
       [] id = "soldier" ->
            IF Gt(c.dd, Pct(10))
            THEN (IF c.hasPos /\ above(102) THEN sell(Mul(value, Pct(20))) ELSE none)
            ELSE IF ~c.hasPos /\ has(100000) THEN buy(Usd(100000))
            ELSE IF below(98) /\ has(10000) THEN buy(Usd(10000))
            ELSE IF above(102) THEN sell(Mul(value, Pct(20)))
            ELSE none
       [] id = "zen" ->
            IF ~c.hasPos THEN (IF has(100000) THEN buy(Usd(100000)) ELSE none)
            ELSE IF c.isBuy THEN (IF has(10000) THEN buy(Usd(10000)) ELSE none)
            ELSE IF Ge(c.shares, Div(Usd(10000), c.price)) THEN sell(Usd(10000))
            ELSE IF Gt(c.shares, Zero) THEN sellAll
            ELSE none

\* getMarketPrices with its mock fallback
runTradingBotLegacy(feed, dt) ==
  /\ timers > 0
  /\ tickCount < MaxTicks
  /\ tickCount' = tickCount + 1
  /\ now' = now + dt
  /\ IF DOMAIN feed = {} THEN marketMap' \in MockPrices ELSE marketMap' = feed
  /\ pc' = [phase |-> "load", i |-> 1, s |-> 0]
  /\ last' = NoStep
  /\ timers' = AfterCycle(AfterStart(timers), pc')
  /\ UNCHANGED <<calls, history, thrown, wrote, submitted, portfolio, positions, trades, equity_snapshots,
                 weeklyStatsMap, todayStr, currentCash, posMap, estimatedEquity,
                 peakEquity, drawdown>>

\* head of the investor loop (engine.ts:536-555); an investor without a
\* portfolio row is passed over
LoadInvestorLegacy ==
  /\ pc.phase = "load"
  /\ LET id == INVESTORS[pc.i]
     IN IF id \notin DOMAIN portfolio
        THEN /\ pc' = NextInvestor
             /\ UNCHANGED <<currentCash, posMap, peakEquity>>
        ELSE /\ pc' = [phase |-> "symbol", i |-> pc.i, s |-> 1]
             /\ currentCash' = portfolio[id].cash_balance
             /\ posMap' = [s \in DOMAIN PositionsOf(id) |->
                             [shares |-> PositionsOf(id)[s].shares,
                              avg_price |-> PositionsOf(id)[s].avg_price,
                              last_buy_price |-> PositionsOf(id)[s].last_buy_price]]
             /\ peakEquity' = portfolio[id].peak_equity
  /\ last' = NoStep
  /\ timers' = AfterCycle(timers, pc')
  /\ UNCHANGED <<calls, history, thrown, wrote, submitted, now, tickCount, portfolio, positions, trades,
                 equity_snapshots, marketMap, weeklyStatsMap, todayStr,
                 estimatedEquity, drawdown>>

\* the locals of one pass of the symbol loop for a quoted symbol
\* (engine.ts:568-655): the trade(...) call of the switch and what
\* executeTrade computes for it before its writes
LegacyCall(isBuy) ==
  LET id == INVESTORS[pc.i]
      symbol == SYMBOLS[pc.s]
      data == marketMap[symbol]
      pos == IF symbol \in DOMAIN posMap THEN posMap[symbol] ELSE NULL
      shares == IF pos # NULL THEN pos.shares ELSE Zero
      value == [s \in DOMAIN posMap |->
                  Mul(posMap[s].shares,
                      MarkPrice(marketMap, s, posMap[s].last_buy_price))]
      tempEquity == Add(currentCash, SumOver(DOMAIN posMap, value))
      c == [price |-> data.price, changePercent |-> data.changePercent,
            shares |-> shares,
            lastBuyPrice |-> IF pos # NULL THEN pos.last_buy_price ELSE Zero,
            avgPrice |-> IF pos # NULL THEN pos.avg_price ELSE Zero,
            hasPos |-> Gt(shares, Zero),
            cash |-> currentCash,
            dd |-> IF Gt(peakEquity, Zero)
                   THEN Div(Sub(peakEquity, tempEquity), peakEquity)
                   ELSE Zero,
            isBuy |-> isBuy]
      order == LegacyOrder(id, c)
  IN [id |-> id, symbol |-> symbol, price |-> data.price,
      order |-> order,
      plan |-> TradePlanLegacy(order.action, order.amountUSD, data.price,
                               order.shares, currentCash),
      oldPos |-> IF pos # NULL THEN pos
                ELSE [shares |-> Zero, avg_price |-> Zero, last_buy_price |-> Zero],
      seen |-> [investor |-> id, symbol |-> symbol, action |-> order.action,
                amountUSD |-> order.amountUSD, shares |-> Zero,
                cash |-> currentCash, isTradedToday |-> FALSE,
                held |-> shares, executed |-> FALSE]]

\* one pass of the symbol loop (engine.ts:568-655)
ProcessSymbolLegacy(isBuy) ==
  /\ pc.phase = "symbol"
  /\ pc' = NextSymbol
  /\ IF SYMBOLS[pc.s] \notin DOMAIN marketMap
     THEN /\ last' = NoStep
          /\ UNCHANGED <<currentCash, posMap, trades, positions, portfolio>>
     ELSE
       LET call == LegacyCall(isBuy)
       IN IF call.order.action # "NONE" /\ call.plan.ok
          THEN /\ executeTradeLegacy(call.id, call.symbol, call.order.action,
                                     call.price, call.plan)
               /\ currentCash' = call.plan.newCash
               /\ posMap' =
                    Put(posMap, call.symbol,
                        [call.oldPos EXCEPT
                           !.shares = PositionAfterLegacy(<<call.id, call.symbol>>,
                                                          call.order.action, call.price,
                                                          call.plan).finalShares,
                           !.last_buy_price = call.price])
               /\ last' = [call.seen EXCEPT !.executed = TRUE,
                                            !.shares = call.plan.tradeShares]
          ELSE /\ last' = call.seen
               /\ UNCHANGED <<currentCash, posMap, trades, positions, portfolio>>
  /\ UNCHANGED <<calls, history, thrown, timers, wrote, submitted, now, tickCount, equity_snapshots, marketMap,
                 weeklyStatsMap, todayStr, estimatedEquity, peakEquity, drawdown>>

\* settlement from the in-memory ledger; the peak is raised here
\* (engine.ts:658-679)
SettleLegacy ==
  /\ pc.phase = "settle"
  /\ LET investorId == INVESTORS[pc.i]
         value == [s \in DOMAIN posMap |->
                     Mul(posMap[s].shares,
                         MarkPrice(marketMap, s, posMap[s].last_buy_price))]
         finalEquity == Add(currentCash, SumOver(DOMAIN posMap, value))
         row == portfolio[investorId]
     IN /\ portfolio' = Put(portfolio, investorId,
                            [row EXCEPT
                               !.peak_equity = IF RaisesPeak(peakEquity, finalEquity)
                                               THEN finalEquity ELSE row.peak_equity,
                               !.total_equity = finalEquity])
        /\ equity_snapshots' = Append(equity_snapshots,
                                      [investor_id |-> investorId,
                                       total_equity |-> finalEquity,
                                       cash_balance |-> currentCash,
                                       created_at |-> now])
  /\ pc' = NextInvestor
  /\ timers' = AfterCycle(timers, pc')
  /\ last' = NoStep
  /\ UNCHANGED <<calls, history, thrown, wrote, submitted, now, tickCount, positions, trades, marketMap,
                 weeklyStatsMap, todayStr, currentCash, posMap, estimatedEquity,
                 peakEquity, drawdown>>

NextLegacy ==
  \/ \E feed \in FeedsLegacy, dt \in Elapsed : runTradingBotLegacy(feed, dt)
  \/ LoadInvestorLegacy
  \/ pc.phase = "symbol"
       /\ \E isBuy \in RollsOf(INVESTORS[pc.i]) : ProcessSymbolLegacy(isBuy)
  \/ SettleLegacy

SpecLegacy == InitLegacy /\ [][NextLegacy]_vars

\* the newest entry of the trade log
LastTradeLogged == trades[Len(trades)]

\* ------------------------------------------------------------------------
\* The earlier engine write by write: every store write of executeTrade
\* (engine.ts:481-525) is a step of its own, so that the states between two
\* writes, where a crash may leave the store, are states of the model
\* ------------------------------------------------------------------------
\* the pass of the symbol loop up to the first write of executeTrade: the
\* trade log entry (engine.ts:481-490)
LogTradeLegacy(isBuy) ==
  /\ pc.phase = "symbol"
  /\ IF SYMBOLS[pc.s] \notin DOMAIN marketMap
     THEN /\ pc' = NextSymbol
          /\ last' = NoStep
          /\ UNCHANGED <<trades, wrote>>
     ELSE
       LET call == LegacyCall(isBuy)
       IN IF call.order.action # "NONE" /\ call.plan.ok
          THEN /\ trades' = Append(trades,
                                   [investor_id |-> call.id, symbol |-> call.symbol,
                                    action |-> IF call.order.action = "SELL_ALL"
                                               THEN "SELL" ELSE call.order.action,
                                    shares |-> call.plan.tradeShares,
                                    price |-> call.price,
                                    amount |-> call.plan.tradeAmount,
                                    created_at |-> now])
               /\ wrote' = <<"trades">>
               /\ pc' = [pc EXCEPT !.phase = "cash"]
               /\ last' = [call.seen EXCEPT !.shares = call.plan.tradeShares]
          ELSE /\ pc' = NextSymbol
               /\ last' = call.seen
               /\ UNCHANGED <<trades, wrote>>
  /\ UNCHANGED <<calls, history, thrown, timers, submitted, now, tickCount, portfolio, positions, equity_snapshots,
                 marketMap, weeklyStatsMap, todayStr, currentCash, posMap,
                 estimatedEquity, peakEquity, drawdown>>

\* the second write: cash_balance of the portfolio (engine.ts:492-493)
WriteCashLegacy ==
  /\ pc.phase = "cash"
  /\ LET newCash == IF LastTradeLogged.action = "BUY"
                    THEN Sub(currentCash, LastTradeLogged.amount)
                    ELSE Add(currentCash, LastTradeLogged.amount)
     IN portfolio' = Put(portfolio, last.investor,
                         [portfolio[last.investor] EXCEPT !.cash_balance = newCash])
  /\ wrote' = Append(wrote, "portfolio")
  /\ pc' = [pc EXCEPT !.phase = "position"]
  /\ UNCHANGED <<calls, history, thrown, timers, submitted, now, tickCount, positions, trades, equity_snapshots,
                 marketMap, weeklyStatsMap, todayStr, currentCash, posMap,
                 estimatedEquity, peakEquity, drawdown, last>>

\* the third write: the position re-read, then upserted, updated or deleted
\* (engine.ts:495-525); executeTrade returns and the caller updates its
\* in-memory ledger (engine.ts:559-565)
WritePositionLegacy ==
  /\ pc.phase = "position"
  /\ LET t == LastTradeLogged
         oldPos == IF last.symbol \in DOMAIN posMap THEN posMap[last.symbol]
                   ELSE [shares |-> Zero, avg_price |-> Zero, last_buy_price |-> Zero]
         after == PositionAfterLegacy(<<last.investor, last.symbol>>, t.action, t.price,
                                      [tradeShares |-> t.shares,
                                       tradeAmount |-> t.amount])
     IN /\ positions' = after.table
        /\ currentCash' = portfolio[last.investor].cash_balance
        /\ posMap' = Put(posMap, last.symbol,
                         [oldPos EXCEPT !.shares = after.finalShares,
                                        !.last_buy_price = t.price])
  /\ wrote' = Append(wrote, "positions")
  /\ pc' = [NextSymbol EXCEPT !.phase = IF @ = "settle" THEN "settle" ELSE "symbol"]
  /\ last' = [last EXCEPT !.executed = TRUE]
  /\ UNCHANGED <<calls, history, thrown, timers, submitted, now, tickCount, portfolio, trades, equity_snapshots,
                 marketMap, weeklyStatsMap, todayStr, estimatedEquity, peakEquity,
                 drawdown>>

NextLegacyWrites ==
  \/ \E feed \in FeedsLegacy, dt \in Elapsed : runTradingBotLegacy(feed, dt)
  \/ LoadInvestorLegacy
  \/ pc.phase = "symbol"
       /\ \E isBuy \in RollsOf(INVESTORS[pc.i]) : LogTradeLegacy(isBuy)
  \/ WriteCashLegacy
  \/ WritePositionLegacy
  \/ SettleLegacy

SpecLegacyWrites == InitLegacy /\ [][NextLegacyWrites]_vars

\* ------------------------------------------------------------------------
\* The evaluators as pure functions: the registry of strategies.ts:1-155 and
\* the earlier zen evaluator of strategies.ts:313-340, applied to inputs
\* drawn from small sets
\* ------------------------------------------------------------------------
\* hasTradedToday of the earlier registry (strategies.ts:160-162)
hasTradedToday(todayTrades) == Len(todayTrades) > 0

\* the earlier zen evaluator: it reads cash and position only.  shouldAct is
\* Math.random() < 1/24 and diceHigh is the second draw > 0.5.
zenStrategyLegacy(p) ==
  IF ~p.shouldAct THEN Hold
  ELSE IF p.diceHigh /\ Ge(p.cash, Usd(50000)) THEN Buy(Usd(50000))
  ELSE IF ~p.diceHigh /\ p.position # NULL /\ Gt(p.position.shares, Zero)
    THEN [action |-> "SELL", amountUSD |-> Usd(50000), shares |-> Zero]
  ELSE Hold

EvalQuotes == {Quote(100, 0), Quote(40, -60), Quote(125, 25)}

EvalCash == {Zero, Usd(60000), Usd(INITIAL_CAPITAL)}

EvalEquity == {Usd(400000), Usd(INITIAL_CAPITAL)}

EvalPositions ==
  {NULL,
   [shares |-> Frac(1000, 1), avg_price |-> Usd(100), last_buy_price |-> Usd(100),
    last_action_price |-> Usd(100), updated_at |-> 0]}

\* one call strategy(params) of the registry
EvaluateStrategy ==
  /\ \E id \in InvestorSet, symbol \in SymbolSet, market \in EvalQuotes,
        cash \in EvalCash, position \in EvalPositions, traded \in BOOLEAN,
        equity \in EvalEquity, weekly \in BOOLEAN, roll \in Rolls :
       LET params == [symbol |-> symbol, price |-> market.price, cash |-> cash,
                      position |-> position, isTradedToday |-> traded,
                      totalEquity |-> equity, marketData |-> market,
                      weeklyHigh |-> IF weekly THEN WeeklyStats.high ELSE Zero,
                      weeklyLow |-> IF weekly THEN WeeklyStats.low ELSE Zero,
                      roll |-> roll]
           decision == STRATEGIES(id, params)
       IN last' = [investor |-> id, symbol |-> symbol, action |-> decision.action,
                   amountUSD |-> decision.amountUSD, shares |-> decision.shares,
                   cash |-> cash, isTradedToday |-> traded,
                   held |-> IF position # NULL THEN position.shares ELSE Zero,
                   executed |-> FALSE]
  /\ UNCHANGED <<calls, history, thrown, timers, wrote, submitted, now, tickCount, portfolio, positions, trades, equity_snapshots,
                 marketMap, weeklyStatsMap, todayStr, pc, currentCash, posMap,
                 estimatedEquity, peakEquity, drawdown>>

\* one call of the earlier zen evaluator
EvaluateZenLegacy ==
  /\ \E symbol \in SymbolSet, cash \in EvalCash, position \in EvalPositions,
        traded \in BOOLEAN, shouldAct \in BOOLEAN, diceHigh \in BOOLEAN :
       LET todayTrades == IF traded THEN <<[symbol |-> symbol]>> ELSE <<>>
           decision == zenStrategyLegacy([cash |-> cash, position |-> position,
                                          todayTrades |-> todayTrades,
                                          shouldAct |-> shouldAct,
                                          diceHigh |-> diceHigh])
       IN last' = [investor |-> "zen", symbol |-> symbol,
                   action |-> decision.action,
                   amountUSD |-> decision.amountUSD, shares |-> decision.shares,
                   cash |-> cash, isTradedToday |-> hasTradedToday(todayTrades),
                   held |-> IF position # NULL THEN position.shares ELSE Zero,
                   executed |-> FALSE]
  /\ UNCHANGED <<calls, history, thrown, timers, wrote, submitted, now, tickCount, portfolio, positions, trades, equity_snapshots,
                 marketMap, weeklyStatsMap, todayStr, pc, currentCash, posMap,
                 estimatedEquity, peakEquity, drawdown>>

NextEval == EvaluateStrategy \/ EvaluateZenLegacy

SpecEval == Init /\ [][NextEval]_vars

\* strategy(params): params is the StrategyParams object handed in, roll
\* the draw the evaluator takes from Math.random() by itself, which is not
\* a field of StrategyParams
Evaluate(id, params, roll) ==
  STRATEGIES(id, [x \in DOMAIN params \cup {"roll"} |->
                    IF x = "roll" THEN roll ELSE params[x]])

\* a first call of an evaluator of the registry
CallStrategy ==
  /\ calls = <<>>
  /\ \E id \in InvestorSet, symbol \in SymbolSet, market \in EvalQuotes,
        cash \in EvalCash, position \in EvalPositions, traded \in BOOLEAN,
        equity \in EvalEquity, weekly \in BOOLEAN, roll \in Rolls :
       LET params == [symbol |-> symbol, price |-> market.price, cash |-> cash,
                      position |-> position, isTradedToday |-> traded,
                      totalEquity |-> equity, marketData |-> market,
                      weeklyHigh |-> IF weekly THEN WeeklyStats.high ELSE Zero,
                      weeklyLow |-> IF weekly THEN WeeklyStats.low ELSE Zero]
       IN calls' = <<[investor |-> id, params |-> params,
                      decision |-> Evaluate(id, params, roll)]>>
  /\ UNCHANGED <<last, history, thrown, timers, wrote, submitted, now, tickCount,
                 portfolio, positions, trades, equity_snapshots, marketMap,
                 weeklyStatsMap, todayStr, pc, currentCash, posMap, estimatedEquity,
                 peakEquity, drawdown>>

\* a second call of the same evaluator with the same params object; the
\* evaluator has changed nothing, and draws from Math.random() again
CallAgain ==
  /\ Len(calls) = 1
  /\ \E roll \in Rolls :
       calls' = Append(calls, [calls[1] EXCEPT
                                 !.decision = Evaluate(calls[1].investor,
                                                       calls[1].params, roll)])
  /\ UNCHANGED <<last, history, thrown, timers, wrote, submitted, now, tickCount,
                 portfolio, positions, trades, equity_snapshots, marketMap,
                 weeklyStatsMap, todayStr, pc, currentCash, posMap, estimatedEquity,
                 peakEquity, drawdown>>

NextTwice ==
  \/ CallStrategy
  \/ CallAgain

SpecTwice == Init /\ [][NextTwice]_vars

\* .limit(7): the number of daily candles getWeeklyStats reads
CandleLimit == 7

Candle(high, low) == [high |-> Usd(high), low |-> Usd(low)]

\* what the query on market_candles can find for a symbol, latest date
\* first: nothing, one candle, a narrow latest candle in front of a wide one,
\* and eight candles of which the oldest is the widest
CandleHistories ==
  { <<>>,
    <<Candle(110, 90)>>,
    <<Candle(110, 90), Candle(130, 30)>>,
    <<Candle(110, 90), Candle(110, 90), Candle(110, 90), Candle(110, 90),
      Candle(110, 90), Candle(110, 90), Candle(110, 90), Candle(130, 30)>> }

\* .order('date', { ascending: false }).limit(7)
MostRecent(candles) ==
  SubSeq(candles, 1, IF Len(candles) > CandleLimit THEN CandleLimit ELSE Len(candles))

\* variant: the statistics are those of the latest candle alone
getWeeklyStatsLatest(candles) ==
  IF Len(candles) = 0 THEN NULL
  ELSE [high |-> candles[1].high, low |-> candles[1].low]

\* the highest high and the lowest low of the candles read, null without
\* candles
getWeeklyStats(candles) ==
  LET data == MostRecent(candles)
      highs == {data[k].high : k \in 1..Len(data)}
      lows == {data[k].low : k \in 1..Len(data)}
  IN IF Len(data) = 0 THEN NULL
     ELSE [high |-> CHOOSE x \in highs : \A y \in highs : Le(y, x),
           low |-> CHOOSE x \in lows : \A y \in lows : Le(x, y)]

\* one call of soldier's evaluator as the engine prepares it: the weekly
\* statistics of the symbol are read from its candles, and weeklyHigh and
\* weeklyLow are undefined when there are none
EvaluateSoldier ==
  /\ \E symbol \in SymbolSet, market \in EvalQuotes, cash \in EvalCash,
        position \in EvalPositions, traded \in BOOLEAN, equity \in EvalEquity,
        candles \in CandleHistories :
       LET weeklyStats == getWeeklyStats(candles)
           params == [symbol |-> symbol, price |-> market.price, cash |-> cash,
                      position |-> position, isTradedToday |-> traded,
                      totalEquity |-> equity, marketData |-> market,
                      weeklyHigh |-> IF weeklyStats # NULL THEN weeklyStats.high ELSE Zero,
                      weeklyLow |-> IF weeklyStats # NULL THEN weeklyStats.low ELSE Zero]
       IN calls' = <<[investor |-> "soldier", params |-> params, candles |-> candles,
                      decision |-> Evaluate("soldier", params, FALSE)]>>
  /\ UNCHANGED <<last, history, thrown, timers, wrote, submitted, now, tickCount,
                 portfolio, positions, trades, equity_snapshots, marketMap,
                 weeklyStatsMap, todayStr, pc, currentCash, posMap, estimatedEquity,
                 peakEquity, drawdown>>

SpecCandles == Init /\ [][EvaluateSoldier]_vars

\* ------------------------------------------------------------------------
\* Properties
\* ------------------------------------------------------------------------
LastTrade == LastTradeLogged

\* the trades of one (investor, instrument) pair, by index
TradesOfPair(id, s) ==
  {i \in 1..Len(trades) : trades[i].investor_id = id /\ trades[i].symbol = s}

\* C1: cash is never below 0, in memory and in the store, and every BUY that
\* was executed asked for no more than the cash available at that moment
\* (a BUY asking for more is not executed).
CashNeverNegative ==
  /\ \A id \in DOMAIN portfolio : Ge(portfolio[id].cash_balance, Zero)
  /\ Ge(currentCash, Zero)
  /\ (last.action = "BUY" /\ Gt(last.amountUSD, last.cash)) => ~last.executed

\* a BUY asking for more than the cash left by earlier purchases has been
\* refused, the cash unchanged
BuyRefusedWitness ==
  /\ last.action = "BUY"
  /\ Gt(last.amountUSD, last.cash)
  /\ Lt(last.cash, Usd(INITIAL_CAPITAL))
  /\ ~last.executed
  /\ currentCash = last.cash

\* C2: for every (investor, instrument) pair at most one trade is recorded
\* per calendar day.
OneTradePerDay ==
  \A i, j \in 1..Len(trades) :
    (/\ i < j
     /\ trades[i].investor_id = trades[j].investor_id
     /\ trades[i].symbol = trades[j].symbol)
    => toDateString(trades[i].created_at) # toDateString(trades[j].created_at)

\* C3: after every cycle, for every investor, the stored total_equity is the
\* stored cash_balance plus the stored positions valued at the cycle's quote,
\* else at the position's last trade price.
EquityIdentity ==
  (pc = Idle) =>
    \A id \in DOMAIN portfolio :
      LET ps == PositionsOf(id)
          value == [s \in DOMAIN ps |->
                      Mul(ps[s].shares,
                          IF s \in DOMAIN marketMap THEN marketMap[s].price
                          ELSE ps[s].last_action_price)]
      IN portfolio[id].total_equity =
           Add(portfolio[id].cash_balance, SumOver(DOMAIN ps, value))

\* C4: after every cycle every stored position holds more than the epsilon
\* of shares.
StoredSharesAboveEpsilon ==
  (pc = Idle) => \A key \in DOMAIN positions : Gt(positions[key].shares, DustLimit)

\* C5: a trade that raises the shares of a position sets avg_price to
\* (old_shares * old_avg_price + trade_notional) / new_shares, and a trade
\* that lowers them to a value above 0 leaves avg_price as it was.
AverageCostRule ==
  [][\A key \in DOMAIN positions' :
       LET new == positions'[key]
           oldShares == IF key \in DOMAIN positions THEN positions[key].shares
                        ELSE Zero
           oldAvg == IF key \in DOMAIN positions THEN positions[key].avg_price
                     ELSE Zero
       IN /\ Gt(new.shares, oldShares) =>
               new.avg_price =
                 Div(Add(Mul(oldShares, oldAvg), trades'[Len(trades')].amount),
                     new.shares)
          /\ (Lt(new.shares, oldShares) /\ Gt(new.shares, Zero)) =>
               new.avg_price = oldAvg]_vars

\* C6: a SELL of all the shares held removes the position row, and a BUY
\* made while no row exists leaves a row whose shares are the shares bought
\* and whose avg_price is the price of that BUY.
CleanupAndFreshEntry ==
  LET key == <<last.investor, last.symbol>>
  IN /\ (last.executed /\ LastTrade.action = "SELL" /\ LastTrade.shares = last.held)
          => key \notin DOMAIN positions
     /\ (last.executed /\ LastTrade.action = "BUY" /\ last.held = Zero)
          => /\ key \in DOMAIN positions
             /\ positions[key].shares = LastTrade.shares
             /\ positions[key].avg_price = LastTrade.price

\* a BUY has just recreated a position that an earlier SELL had removed
ReentryWitness ==
  /\ last.executed
  /\ LastTrade.action = "BUY"
  /\ last.held = Zero
  /\ \E i \in TradesOfPair(last.investor, last.symbol) :
       i < Len(trades) /\ trades[i].action = "SELL"
  /\ <<last.investor, last.symbol>> \in DOMAIN positions

\* C7: the stored peak_equity of an investor never decreases.
PeakNeverDecreases ==
  [][\A id \in DOMAIN portfolio :
       /\ id \in DOMAIN portfolio'
       /\ Ge(portfolio'[id].peak_equity, portfolio[id].peak_equity)]_vars

\* an investor whose peak rose above the initial capital and whose settled
\* equity has since fallen below the peak
PeakAboveEquityWitness ==
  \E id \in DOMAIN portfolio :
    /\ pc = Idle
    /\ Gt(portfolio[id].peak_equity, Usd(INITIAL_CAPITAL))
    /\ Lt(portfolio[id].total_equity, portfolio[id].peak_equity)

\* the investors settled at least once
Settled == {equity_snapshots[i].investor_id : i \in 1..Len(equity_snapshots)}

\* C8: once an investor has been settled its portfolio carries a peak_equity
\* that is at least its total_equity.
PeakCoversEquity ==
  \A id \in Settled :
    /\ "peak_equity" \in DOMAIN portfolio[id]
    /\ Ge(portfolio[id].peak_equity, portfolio[id].total_equity)

\* the highest equity an investor has been settled at, its initial capital
\* included
HighWaterMark(id) ==
  LET seen == {Usd(INITIAL_CAPITAL)} \cup
              {equity_snapshots[i].total_equity :
                 i \in {j \in 1..Len(equity_snapshots) :
                          equity_snapshots[j].investor_id = id}}
  IN CHOOSE m \in seen : \A x \in seen : Ge(m, x)

\* C9: soldier executes no BUY while its equity is more than 10% below its
\* high-water mark.
SoldierHaltsInDrawdown ==
  (last.investor = "soldier" /\ last.executed /\ last.action = "BUY")
  => ~Gt(Div(Sub(HighWaterMark("soldier"), estimatedEquity), HighWaterMark("soldier")),
         Pct(10))

\* C10: an evaluator called with the traded-today flag set answers HOLD.
TradedTodayHolds == last.isTradedToday => last.action = "HOLD"

\* C11: every executed trade uses figures read from the store at that
\* moment: the cash a BUY is accepted against is the stored cash_balance and
\* the shares a SELL is capped by are the stored shares of the position.
FiguresFromStore ==
  [][last'.executed =>
       LET key == <<last'.investor, last'.symbol>>
       IN /\ last'.action = "BUY" =>
               last'.cash = portfolio[last'.investor].cash_balance
          /\ last'.action = "SELL" =>
               /\ key \in DOMAIN positions
               /\ last'.held = positions[key].shares]_vars

\* C12: the store writes of a trade execution come in the order trade log,
\* position, cash: at every state, between two writes included, the tables
\* written so far by the latest execution are an initial part of
\* <<trades, positions, portfolio>>.
WriteOrder ==
  LET order == <<"trades", "positions", "portfolio">>
  IN /\ Len(wrote) <= Len(order)
     /\ \A k \in 1..Len(wrote) : wrote[k] = order[k]

\* C13: at most one cycle, hence at most one trade execution per investor,
\* is in progress at any time: while a cycle runs no timer of the daemon is
\* pending, so no tick starts before the previous one is over.
OneCycleAtATime ==
  /\ timers \in {0, 1}
  /\ (pc # Idle) => timers = 0
  /\ (pc = Idle) => timers = 1

\* a trade is executed in a tick that follows a completed one
SecondTickWitness ==
  /\ tickCount >= 2
  /\ Len(equity_snapshots) >= Len(INVESTORS)
  /\ last.executed
  /\ timers = 0

\* C14: a BUY asking for more than the cash at hand writes nothing: the
\* step that refuses it appends no trade, creates or changes no position and
\* leaves the cash, in memory and in the store, as it was.
RejectedBuyWritesNothing ==
  [][(last'.action = "BUY" /\ Gt(last'.amountUSD, last'.cash))
       => /\ trades' = trades
          /\ positions' = positions
          /\ portfolio' = portfolio
          /\ equity_snapshots' = equity_snapshots
          /\ currentCash' = currentCash
          /\ currentCash' = last'.cash]_vars

\* a BUY adding to a position has been refused: the position and the
\* stored cash are as they were
RejectedBuyWitness ==
  /\ last.action = "BUY"
  /\ Gt(last.amountUSD, last.cash)
  /\ ~last.executed
  /\ Gt(last.held, Zero)
  /\ <<last.investor, last.symbol>> \in DOMAIN positions
  /\ positions[<<last.investor, last.symbol>>].shares = last.held
  /\ Lt(portfolio[last.investor].cash_balance, last.amountUSD)

\* C15: a SELL is booked for the smaller of the shares asked for (given as
\* shares, else as amountUSD / price) and the shares held in the store, so
\* never for more than is held; with nothing held it is refused and nothing
\* is written.
SellCappedAtHolding ==
  [][last'.action = "SELL" =>
       LET key == <<last'.investor, last'.symbol>>
           held == IF key \in DOMAIN positions THEN positions[key].shares ELSE Zero
           price == marketMap[last'.symbol].price
           asked == IF last'.shares # Zero THEN last'.shares
                    ELSE Div(last'.amountUSD, price)
           sold == IF Lt(held, asked) THEN held ELSE asked
       IN IF held = Zero
          THEN /\ ~last'.executed
               /\ UNCHANGED <<trades, positions, portfolio, currentCash>>
          ELSE /\ last'.executed
               /\ trades' = Append(trades, trades'[Len(trades')])
               /\ trades'[Len(trades')].action = "SELL"
               /\ trades'[Len(trades')].shares = sold
               /\ Le(trades'[Len(trades')].shares, held)
               /\ currentCash' = Add(currentCash, Mul(sold, price))]_vars

\* a SELL asking for more shares than are held has been booked for exactly
\* the shares held
SellCappedWitness ==
  /\ last.action = "SELL"
  /\ last.executed
  /\ Gt(Div(last.amountUSD, LastTrade.price), last.held)
  /\ LastTrade.shares = last.held
  /\ Gt(last.held, Zero)

SnapshotsOf(id) ==
  Cardinality({i \in 1..Len(equity_snapshots) : equity_snapshots[i].investor_id = id})

\* C17: a failure met while one investor or instrument is processed does not
\* keep the others from being processed: at the end of every tick all
\* investors have been settled the same number of times.
FailureDoesNotAbortCycle ==
  (pc = Idle) => \A i, j \in InvestorSet : SnapshotsOf(i) = SnapshotsOf(j)

\* C18: every cycle settles every investor once: at the end of every tick
\* each investor has as many equity snapshots as ticks have run.
SnapshotEveryCycle ==
  (pc = Idle) => \A id \in InvestorSet : SnapshotsOf(id) = tickCount

\* C19: missing quotes never keep settlement from running, and settlement
\* values a position at the cycle's quote, else at its last trade price:
\* at the end of every tick each investor has a snapshot, and the newest one
\* is the stored cash plus the stored positions at those prices.
SettlementDespiteMissingQuotes ==
  (pc = Idle /\ tickCount > 0) =>
    \A id \in InvestorSet :
      LET mine == {i \in 1..Len(equity_snapshots) :
                     equity_snapshots[i].investor_id = id}
          newest == CHOOSE i \in mine : \A j \in mine : j <= i
          ps == PositionsOf(id)
          value == [s \in DOMAIN ps |->
                      Mul(ps[s].shares,
                          IF s \in DOMAIN marketMap THEN marketMap[s].price
                          ELSE ps[s].last_action_price)]
      IN /\ mine # {}
         /\ equity_snapshots[newest].cash_balance = portfolio[id].cash_balance
         /\ equity_snapshots[newest].total_equity =
              Add(portfolio[id].cash_balance, SumOver(DOMAIN ps, value))

\* C20: an instrument without quote in the cycle is passed over: in its
\* pass of the symbol loop no decision is evaluated, nothing is traded, no
\* position and no cash changes, and the loop goes on to the next
\* instrument or to the settlement of the investor.
UnquotedInstrumentSkipped ==
  [][(pc.phase = "symbol" /\ SYMBOLS[pc.s] \notin DOMAIN marketMap)
       => /\ last' = NoStep
          /\ UNCHANGED <<trades, positions, portfolio, currentCash>>
          /\ pc'.i = pc.i
          /\ pc' = IF pc.s < NumSymbols
                   THEN [phase |-> "symbol", i |-> pc.i, s |-> pc.s + 1]
                   ELSE [phase |-> "settle", i |-> pc.i, s |-> 0]]_vars

\* a completed cycle in which the second instrument had no quote: an
\* investor traded the first instrument in it, and its position in the
\* second, taken on an earlier day, is as that day left it
UnquotedSkippedWitness ==
  /\ pc = Idle
  /\ SYMBOLS[1] \in DOMAIN marketMap
  /\ SYMBOLS[2] \notin DOMAIN marketMap
  /\ \E id \in InvestorSet :
       /\ <<id, SYMBOLS[2]>> \in DOMAIN positions
       /\ positions[<<id, SYMBOLS[2]>>].updated_at < now
       /\ \A i \in TradesOfPair(id, SYMBOLS[2]) : trades[i].created_at < now
       /\ \E i \in TradesOfPair(id, SYMBOLS[1]) : trades[i].created_at = now
       /\ SnapshotsOf(id) >= 2


\* C21: the trade log is append-only: every step keeps the trades logged so
\* far, in place and unchanged, and a cycle that ends with a failure
\* (the load of an investor that ends the cycle) leaves the trades and the
\* positions as the steps before it wrote them.
TradesAppendOnly ==
  [][/\ Len(trades') >= Len(trades)
     /\ SubSeq(trades', 1, Len(trades)) = trades
     /\ (pc.phase = "load" /\ pc' = Idle) => UNCHANGED <<trades, positions>>]_vars

\* a second cycle ended by a failure after its first investor had traded:
\* the log holds that investor's trade of the first cycle and the one of
\* this cycle, and its position; the investors behind it were not settled
TradesKeptWitness ==
  /\ pc = Idle
  /\ tickCount = 2
  /\ SnapshotsOf(INVESTORS[1]) = 2
  /\ SnapshotsOf(INVESTORS[2]) = 1
  /\ \E i, j \in 1..Len(trades) :
       /\ i < j
       /\ trades[i].investor_id = INVESTORS[1]
       /\ trades[j].investor_id = INVESTORS[1]
       /\ trades[i].symbol = trades[j].symbol
       /\ trades[i].created_at < trades[j].created_at
       /\ trades[j].created_at = now
       /\ <<INVESTORS[1], trades[j].symbol>> \in DOMAIN positions


\* C22: every tick that has started completes: from any state in which a
\* cycle is under way the daemon comes back to rest, also when the quote
\* provider never answers.
TickCompletes == (pc.phase # "idle") ~> (pc.phase = "idle")


EqualInputsEqualDecisions ==
  (Len(calls) = 2 /\ calls[1].investor = calls[2].investor
                  /\ calls[1].params = calls[2].params)
    => calls[1].decision = calls[2].decision


\* C26: xiaoqing never sells: every trade logged for xiaoqing is a BUY, and
\* no step removes a position of xiaoqing or lowers its share count.
XiaoqingNeverSells ==
  [][/\ \A i \in 1..Len(trades') :
          trades'[i].investor_id = "xiaoqing" => trades'[i].action = "BUY"
     /\ \A s \in SymbolSet :
          LET key == <<"xiaoqing", s>>
          IN key \in DOMAIN positions =>
               /\ key \in DOMAIN positions'
               /\ Ge(positions'[key].shares, positions[key].shares)]_vars

\* xiaoqing entered the first symbol, added to it after a fall, and a later
\* cycle quoted it at 125, above both purchases: the position is whole
XiaoqingHoldsWitness ==
  /\ pc = Idle
  /\ SYMBOLS[1] \in DOMAIN marketMap
  /\ marketMap[SYMBOLS[1]].price = Usd(125)
  /\ SnapshotsOf("xiaoqing") = 3
  /\ Cardinality(TradesOfPair("xiaoqing", SYMBOLS[1])) = 2
  /\ <<"xiaoqing", SYMBOLS[1]>> \in DOMAIN positions
  /\ Gt(positions[<<"xiaoqing", SYMBOLS[1]>>].shares, Frac(1000, 1))
  /\ Lt(positions[<<"xiaoqing", SYMBOLS[1]>>].avg_price, Usd(125))


\* C27: mom enters an instrument once: the log never holds a second BUY of
\* mom for the same instrument.
MomBuysOnce ==
  \A s \in SymbolSet :
    Cardinality({i \in TradesOfPair("mom", s) : trades[i].action = "BUY"}) <= 1


\* C28: dog keeps its reserve: whenever dog's evaluator answers BUY, the
\* cash it was handed, less the reserve of 800,000 dollars, covers the
\* amount of the BUY.
DogReserve == Usd(800000)

DogKeepsReserve ==
  (last.investor = "dog" /\ last.action = "BUY")
    => Ge(Sub(last.cash, DogReserve), last.amountUSD)


\* C29: zen lets 24 hours (two half days) pass between two trades of the
\* same instrument.
ZenWaitsADay ==
  \A s \in SymbolSet :
    \A i, j \in TradesOfPair("zen", s) :
      i < j => trades[j].created_at - trades[i].created_at >= 2


\* C30: the daemon never stops: whenever no invocation of loop() is under
\* way (no trading cycle, no candle sync), the timer of the next tick is
\* set, also after a cycle that ended with an exception.
DriverNeverStops ==
  (pc.phase \notin {"load", "symbol", "settle", "sync"}) => timers = 1

\* the second of two ticks ran to its end after the first one had thrown
\* behind the settlement of the first investor: the timer is set again
RetriedAfterThrowWitness ==
  /\ thrown = 1
  /\ pc = Idle
  /\ timers = 1
  /\ tickCount = 2
  /\ SnapshotsOf(INVESTORS[1]) = 2
  /\ SnapshotsOf(INVESTORS[Len(INVESTORS)]) = 1
  /\ equity_snapshots[Len(equity_snapshots)].investor_id = INVESTORS[Len(INVESTORS)]

\* ------------------------------------------------------------------------
\* C31  Within one cycle every (investor, instrument) pair is evaluated and
\*      executed at most once, and an investor is settled after all of its
\*      instruments and before the next investor's first trade: the position
\*      in the two loops only moves forward, a trade is written only by the
\*      symbol step of its own pair, the settlement is entered only from the
\*      last instrument, and the snapshot is written only there, followed by
\*      the next investor's load or the end of the cycle.
\* ------------------------------------------------------------------------
CycleRank(p) ==
  p.i * 100 + (IF p.phase = "load" THEN 0 ELSE IF p.phase = "symbol" THEN p.s ELSE 99)

PairOnceThenSettle ==
  [][/\ (pc.phase # "idle" /\ pc'.phase # "idle") => CycleRank(pc') > CycleRank(pc)
     /\ (trades' # trades) =>
          /\ pc.phase = "symbol"
          /\ Len(trades') = Len(trades) + 1
          /\ trades'[Len(trades')].investor_id = INVESTORS[pc.i]
          /\ trades'[Len(trades')].symbol = SYMBOLS[pc.s]
     /\ (pc'.phase = "settle" /\ pc.phase # "settle") =>
          /\ pc.phase = "symbol"
          /\ pc.s = NumSymbols
          /\ pc'.i = pc.i
     /\ (equity_snapshots' # equity_snapshots) =>
          /\ pc.phase = "settle"
          /\ Len(equity_snapshots') = Len(equity_snapshots) + 1
          /\ equity_snapshots'[Len(equity_snapshots')].investor_id = INVESTORS[pc.i]
          /\ portfolio'[INVESTORS[pc.i]].cash_balance = currentCash
          /\ UNCHANGED trades
          /\ pc' \in {Idle, [phase |-> "load", i |-> pc.i + 1, s |-> 0]}]_vars

\* the first investor has traded both instruments once and is settled, and
\* the second investor is about to be loaded
SettledBetweenInvestorsWitness ==
  /\ pc = [phase |-> "load", i |-> 2, s |-> 0]
  /\ Len(trades) = NumSymbols
  /\ \A k \in 1..Len(trades) :
       trades[k].investor_id = INVESTORS[1] /\ trades[k].symbol = SYMBOLS[k]
  /\ Len(equity_snapshots) = 1
  /\ equity_snapshots[1].investor_id = INVESTORS[1]

\* ------------------------------------------------------------------------
\* C32  Whenever dog is evaluated with a total equity below 500,000 and has
\*      not traded the instrument today, it sells its entire position if it
\*      holds one and holds otherwise, and never buys: the engine then
\*      removes the position, and writes nothing for an instrument dog does
\*      not hold.
\* ------------------------------------------------------------------------
EquityFloor == Usd(500000)

DogLiquidatesBelowFloor ==
  [][(/\ pc.phase = "symbol"
      /\ INVESTORS[pc.i] = "dog"
      /\ submitted' = submitted
      /\ Lt(estimatedEquity, EquityFloor)
      /\ last'.action # "NONE"
      /\ ~last'.isTradedToday)
     => IF Gt(last'.held, Zero)
        THEN /\ last'.action = "SELL"
             /\ last'.shares = last'.held
             /\ last'.executed
             /\ <<"dog", SYMBOLS[pc.s]>> \notin DOMAIN positions'
        ELSE /\ last'.action = "HOLD"
             /\ UNCHANGED <<positions, trades, currentCash>>]_vars

\* dog, below the floor, has sold all it held and holds on an instrument it
\* no longer has
DogOutOfMarketWitness ==
  /\ last.investor = "dog"
  /\ last.action = "HOLD"
  /\ ~last.isTradedToday
  /\ last.held = Zero
  /\ Lt(estimatedEquity, EquityFloor)
  /\ PositionsOf("dog") = [x \in {} |-> NULL]
  /\ \E k \in 1..Len(trades) : trades[k].investor_id = "dog" /\ trades[k].action = "SELL"

LastPricesAfterTrade ==
  [][(Len(trades') = Len(trades) + 1) =>
       LET t == trades'[Len(trades')]
           key == <<t.investor_id, t.symbol>>
       IN (key \in DOMAIN positions') =>
            /\ ("last_action_price" \in DOMAIN positions'[key]) =>
                 positions'[key].last_action_price = t.price
            /\ (t.action = "BUY") => positions'[key].last_buy_price = t.price
            /\ (t.action = "SELL" /\ key \in DOMAIN positions) =>
                 positions'[key].last_buy_price = positions[key].last_buy_price]_vars

\* ------------------------------------------------------------------------
\* C35  An account in its initial condition (cash and equity at
\*      INITIAL_CAPITAL, no position and no trade on the instrument), be it
\*      fresh or reset, makes its entry BUY on every quoted instrument in
\*      the next cycle.
\* ------------------------------------------------------------------------
EntryAfterReset ==
  [][(/\ pc.phase = "symbol"
      /\ SYMBOLS[pc.s] \in DOMAIN marketMap
      /\ portfolio[INVESTORS[pc.i]].cash_balance = Usd(INITIAL_CAPITAL)
      /\ portfolio[INVESTORS[pc.i]].total_equity = Usd(INITIAL_CAPITAL)
      /\ <<INVESTORS[pc.i], SYMBOLS[pc.s]>> \notin DOMAIN positions
      /\ TradesOfPair(INVESTORS[pc.i], SYMBOLS[pc.s]) = {})
     => /\ Len(trades') = Len(trades) + 1
        /\ trades'[Len(trades')].investor_id = INVESTORS[pc.i]
        /\ trades'[Len(trades')].symbol = SYMBOLS[pc.s]
        /\ trades'[Len(trades')].action = "BUY"]_vars

\* ------------------------------------------------------------------------
\* C36  After every cycle, and for every investor whose pass is not under
\*      way, the stored cash_balance is the initial capital minus the
\*      amounts of the investor's BUY trades plus the amounts of its SELL
\*      trades.
\* ------------------------------------------------------------------------
LedgerTotal(id, action, field) ==
  SumOver({k \in 1..Len(trades) : trades[k].investor_id = id /\ trades[k].action = action},
          [k \in 1..Len(trades) |-> trades[k][field]])

CashMatchesLedger ==
  \A id \in DOMAIN portfolio :
    (pc.phase = "idle" \/ INVESTORS[pc.i] # id) =>
      portfolio[id].cash_balance =
        Add(Sub(portfolio[id].initial_capital, LedgerTotal(id, "BUY", "amount")),
            LedgerTotal(id, "SELL", "amount"))

\* a cycle has ended with an investor that has bought and sold
BoughtAndSoldWitness ==
  /\ pc.phase = "idle"
  /\ \E id \in DOMAIN portfolio :
       /\ Gt(LedgerTotal(id, "BUY", "amount"), Zero)
       /\ Gt(LedgerTotal(id, "SELL", "amount"), Zero)
       /\ portfolio[id].cash_balance # portfolio[id].initial_capital

\* ------------------------------------------------------------------------
\* C37  After every cycle, and for every investor whose pass is not under
\*      way, the shares held of an instrument (0 without position row) are
\*      the shares of the investor's BUY trades of that instrument minus the
\*      shares of its SELL trades of it.
\* ------------------------------------------------------------------------
SharesBooked(id, symbol, action) ==
  SumOver({k \in 1..Len(trades) : /\ trades[k].investor_id = id
                                  /\ trades[k].symbol = symbol
                                  /\ trades[k].action = action},
          [k \in 1..Len(trades) |-> trades[k].shares])

DecisionsWithinMeans ==
  \A n \in 1..Len(calls) :
    LET p == calls[n].params
        d == calls[n].decision
    IN /\ (d.action = "BUY") => Gt(d.amountUSD, Zero) /\ Le(d.amountUSD, p.cash)
       /\ (d.action = "SELL") =>
            /\ p.position # NULL
            /\ Gt(d.shares, Zero)
            /\ Le(d.shares, p.position.shares)

\* gambler, with 60,000 in cash and a position that cost 100,000, is below
\* its last buy price and holds instead of doubling
GamblerCannotDoubleWitness ==
  /\ Len(calls) = 1
  /\ calls[1].investor = "gambler"
  /\ calls[1].params.position # NULL
  /\ ~calls[1].params.isTradedToday
  /\ calls[1].params.cash = Usd(60000)
  /\ Lt(calls[1].params.price, Mul(calls[1].params.position.last_buy_price, Frac(97, 100)))
  /\ calls[1].decision.action = "HOLD"

\* ------------------------------------------------------------------------
\* C39  A cycle whose quote fetch yields no quote writes nothing: every step
\*      that ends with the quote map of the running cycle empty leaves
\*      portfolio, positions, trades and equity snapshots as they were, and
\*      the step that fetched the empty map ends the cycle.
\* ------------------------------------------------------------------------
NoQuotesNoWrites ==
  [][(DOMAIN marketMap' = {}) =>
       /\ UNCHANGED <<portfolio, positions, trades, equity_snapshots>>
       /\ pc' = Idle]_vars

\* a cycle without quotes has run after a cycle that traded and settled
\* every investor once
QuietCycleWitness ==
  /\ pc = Idle
  /\ tickCount = 2
  /\ DOMAIN marketMap = {}
  /\ trades # <<>>
  /\ Len(equity_snapshots) = Len(INVESTORS)

====
